---- MODULE Spec2Model ----
(***************************************************************************)
(* State-machine model of the datahaven-monitor orchestration code:        *)
(*   - runMonitor       (src/src/monitor/index.ts) and its nine stages     *)
(*   - runSanitySuite   (src/unnamed/part_005, the sanity suite entry)     *)
(*   - withConcurrency, uploadWithRetry, runMonitorHeavy and the wait     *)
(*     helpers of createUserApi (src/src/monitor-heavy/index.ts)           *)
(*   - the polling waits (src/src/monitor/utils/waits.ts), generateBadges  *)
(*     (src/src/monitor/utils/badges.ts), runCleanup (src/unnamed/part_002)*)
(* A stage function is one atomic step: its outcome is fixed by a failure  *)
(* point fp (0 = every call of the stage to the chain / MSP backend / file *)
(* system succeeds, k > 0 = the k-th fallible call rejects) and by the     *)
(* value that call rejects with.                                           *)
(***************************************************************************)
EXTENDS Integers, Sequences, FiniteSets, TLC

VARIABLES
    \* ---- runMonitor (src/src/monitor/index.ts) ----
    pc,            \* position of runMonitor / of the entry point
    stageIdx,      \* index of the for-of loop over STAGES
    results,       \* const results: StageResult[]
    failed,        \* let failed
    ctx,           \* MonitorContext: which optional fields are set
    chain,         \* resources of this run that exist on chain / in the MSP
    txLog,         \* on-chain transactions submitted, in order
    invoked,       \* stage functions invoked, in order
    thrown,        \* what each invoked stage function threw (NoError: returned)
    cleanupCalls,  \* invocations of cleanup(ctx)
    cleanupLog,    \* what cleanup logged about ctx.userApi.disconnect()
    badgeCalls,    \* arguments of the invocations of generateBadges
    badgeFiles,    \* badge files written by generateBadges
    exitCode,      \* process.exitCode / process.exit code, Unset if never set
    rejection,     \* value runMonitor's promise rejected with
    \* ---- runSanitySuite (src/unnamed/part_005) ----
    sanityPc,      \* position of runSanitySuite
    target,        \* the SanityTarget argument
    stageStatuses, \* const stageStatuses: Record<Stage, StageStatus>
    locals,        \* which closure variables of runSanitySuite are assigned
    sanityChain,   \* resources of this run that exist on chain / in the MSP
    created,       \* resources this run ever created on chain
    stagesRun,     \* stages whose function runStage invoked, in order
    cleanups,      \* labels of the invocations of cleanup(label)
    deletions,     \* deletion checks invoked (a deletion attempt), in order
    pending,       \* the exception travelling to the catch block
    sanityExit,    \* process.exitCode, Unset if never set
    statusFile,    \* content of the status file, <<>> if not written
    \* ---- withConcurrency (src/src/monitor-heavy/index.ts) ----
    wcPc,          \* position of the call of withConcurrency
    wcItems,       \* items.length
    wcConcurrency, \* the concurrency argument
    wcIdx,         \* let idx, shared by the workers
    wcWorkers,     \* per worker: "running" (awaiting fn), "returned", "threw"
    wcCurrent,     \* per worker: const current of its latest iteration
    wcInFlight,    \* indices whose invocation of fn has not settled
    wcDispatched,  \* indices fn was invoked with, in order of invocation
    wcRaised,      \* rejections of fn, in the order they happened
    wcOutcome,     \* the promise withConcurrency returned
    \* ---- uploadWithRetry (src/src/monitor-heavy/index.ts) ----
    urPc,          \* position of the call: the await it is suspended at
    urOpts,        \* opts.retries, delayMs, maxTotalMs, maxDelayMs (Unset: absent)
    urElapsed,     \* Date.now() - startedAt, in ms
    urAttempt,     \* let attempt
    urError,       \* what the latest uploadFile call rejected with
    urReAuth,      \* the reAuth call made for urError: "none", "fulfilled", "rejected"
    urDelay,       \* nextDelay of the latest sleep
    urOutcome,     \* the promise uploadWithRetry returned
    \* ---- runMonitorHeavy (src/src/monitor-heavy/index.ts) ----
    hmPc,          \* position of runMonitorHeavy: the await it is suspended at
    hmPhases,      \* const phases: HeavyPhaseResult[]
    hmActive,      \* let activePhase: its name, "none" if undefined
    hmFailed,      \* let failed
    hmErr,         \* the error thrown in the try block / rejecting the run
    hmWrites,      \* the `overall` argument of each call of writeHeavyOutputs
    hmExit,        \* process.exitCode / process.exit code, Unset if never set
    hmStatusFile,  \* content of monitor-heavy-status.json and of the badge
                   \* file status.json, <<>> if not written
    hmBatch,       \* 1: the initial files, 2: the second batch
    hmI,           \* let i of issueStorageRequestSeq
    hmSubmitted,   \* const submitted of issueStorageRequestSeq (the files)
    hmAttempt,     \* let attempt of deleteFilesWithRetry
    hmRemaining,   \* let remaining of deleteFilesWithRetry
    hmJ,           \* position of `for (const f of remaining)`
    hmFailedFiles, \* const failed of the current delete attempt
    hmTxInFlight,  \* transaction submissions whose hash has not returned
    hmConcFor,     \* what the latest withConcurrency call was made for
    hmRound,       \* polling rounds of waitReady started
    \* ---- wait primitives and the cleanup tool, one record each ----
    wt,            \* a call of pollBackend / waitForOnChainData /
                   \* waitForStorageRequestCleared (src/src/monitor/utils/waits.ts)
    fa,            \* a call of waitForFinalization / finalizedAtLeast
    fe,            \* a call of forFinalizedEvent
    ct,            \* a run of the cleanup tool (src/unnamed/part_002)
    ufp,           \* the closure state of a call of uploadFilesParallel
                   \* (src/src/monitor-heavy/index.ts:699-793)
    sf,            \* a call of waitForStorageRequestFulfilled (waits.ts:56-90)
    mr,            \* a call of waitForMspFileReadyWithSnapshot (waits.ts:140-207)
    df             \* a call of deleteFilesWithRetry
                   \* (src/src/monitor-heavy/index.ts:859-948)

monVars == <<pc, stageIdx, results, failed, ctx, chain, txLog, invoked, thrown,
             cleanupCalls, cleanupLog, badgeCalls, badgeFiles, exitCode,
             rejection>>

sanityVars == <<sanityPc, target, stageStatuses, locals, sanityChain, created,
                stagesRun, cleanups, deletions, pending, sanityExit,
                statusFile>>

wcVars == <<wcPc, wcItems, wcConcurrency, wcIdx, wcWorkers, wcCurrent,
            wcInFlight, wcDispatched, wcRaised, wcOutcome>>

urVars == <<urPc, urOpts, urElapsed, urAttempt, urError, urReAuth, urDelay,
            urOutcome>>

hmFlow == <<hmPhases, hmActive, hmFailed, hmErr, hmWrites, hmExit>>

hmSr == <<hmBatch, hmI, hmSubmitted>>

hmDel == <<hmAttempt, hmRemaining, hmJ, hmFailedFiles>>

hmVars == <<hmPc, hmFlow, hmStatusFile, hmSr, hmDel, hmTxInFlight, hmConcFor,
            hmRound>>

programVars == <<monVars, sanityVars, wcVars, urVars, hmVars>>

utilVars == <<wt, fa, fe, ct>>

callVars == <<ufp, sf, mr, df>>

vars == <<programVars, utilVars, callVars>>

----------------------------------------------------------------------------
\* Thrown values.  isError: `error instanceof Error`; message: error.message;
\* str: String(error).

Unset == -1

NoError == [isError |-> FALSE, message |-> "", str |-> ""]

Err(msg) == [isError |-> TRUE, message |-> msg, str |-> "Error"]

TimeoutError == Err("Timeout waiting for MSP backend (120000ms)")

RawRejection == [isError |-> FALSE, message |-> "", str |-> "socket hang up"]

FsError == Err("EACCES: permission denied")

\* What a rejected call of a collaborator (chain, MSP backend, fs) may throw.
EnvErrors == {TimeoutError, RawRejection}

----------------------------------------------------------------------------
\* STAGES (src/src/monitor/index.ts:18-28)

STAGES == <<"connection", "health", "auth", "bucket-create", "storage-request",
            "file-upload", "file-download", "file-delete", "bucket-delete">>

NumStages == Len(STAGES)

CtxFields == {"storageHubClient", "mspClient", "userApi", "sessionToken",
              "mspId", "bucketName", "bucketId", "fileBlob", "fingerprint",
              "fileSize", "fileLocation", "fileKey"}

\* const ctx = { network, account, walletClient, publicClient }: no optional
\* field is set.  ctx.assignments counts, per field, the assignment statements
\* ctx.<field> = ... executed so far in the run.
EmptyCtx ==
    [f \in CtxFields |-> FALSE] @@ [assignments |-> [f \in CtxFields |-> 0]]

EmptyChain == [bucket |-> FALSE, storageRequest |-> FALSE, file |-> FALSE]

\* Variant of Set in which a stage stores nothing in the context.
SetNothing(c, fields) == c

\* ctx.<field> = ... for each of the fields
Set(c, fields) ==
    [f \in DOMAIN c |->
        IF f = "assignments"
        THEN [g \in CtxFields |->
                 c.assignments[g] + (IF g \in fields THEN 1 ELSE 0)]
        ELSE c[f] \/ f \in fields]

\* Outcome of a stage function.
Returns(c, ch, tx) ==
    [ctx |-> c, chain |-> ch, tx |-> tx, ok |-> TRUE, error |-> NoError]

Throws(c, ch, tx, e) ==
    [ctx |-> c, chain |-> ch, tx |-> tx, ok |-> FALSE, error |-> e]

\* Number of fallible collaborator calls of each stage.
FailPoints(name) ==
    CASE name = "connection"      -> 3
      [] name = "health"          -> 1
      [] name = "auth"            -> 2
      [] name = "bucket-create"   -> 6
      [] name = "storage-request" -> 6
      [] name = "file-upload"     -> 3
      [] name = "file-download"   -> 1
      [] name = "file-delete"     -> 3
      [] name = "bucket-delete"   -> 3

\* Largest number of fallible collaborator calls of a stage.
MaxFailPoint ==
    CHOOSE m \in {FailPoints(STAGES[i]) : i \in 1..NumStages} :
        \A i \in 1..NumStages : FailPoints(STAGES[i]) <= m

connectionStage(c, ch, fp, e) ==
    LET c1 == Set(c, {"storageHubClient"})
        c2 == Set(c1, {"mspClient"})
        c3 == Set(c2, {"userApi"})
    IN  CASE fp = 1 -> Throws(c1, ch, <<>>, e)   \* MspClient.connect rejects
          [] fp = 2 -> Throws(c2, ch, <<>>, e)   \* createUserApi rejects
          [] fp = 3 -> Throws(c3, ch, <<>>, e)   \* getBlockNumber / getHeader
          [] OTHER  -> Returns(c3, ch, <<>>)

healthStage(c, ch, fp, e) ==
    IF ~c.mspClient THEN Throws(c, ch, <<>>, Err("MSP client not initialized"))
    ELSE IF fp = 1 THEN Throws(c, ch, <<>>, e)   \* getHealth rejects / unhealthy
    ELSE Returns(c, ch, <<>>)

authStage(c, ch, fp, e) ==
    LET c1 == Set(c, {"sessionToken"})
    IN  IF ~c.mspClient THEN Throws(c, ch, <<>>, Err("MspClient not initialized"))
        ELSE CASE fp = 1 -> Throws(c, ch, <<>>, e)    \* auth.SIWE rejects
               [] fp = 2 -> Throws(c1, ch, <<>>, e)   \* getProfile / mismatch
               [] OTHER  -> Returns(c1, ch, <<>>)

bucketCreateStage(c, ch, fp, e) ==
    LET c1  == Set(c, {"mspId"})
        c2  == Set(c1, {"bucketName"})
        c3  == Set(c2, {"bucketId"})
        on  == [ch EXCEPT !.bucket = TRUE]
        tx  == <<"createBucket">>
    IN  IF ~c.storageHubClient \/ ~c.mspClient \/ ~c.userApi
        THEN Throws(c, ch, <<>>, Err("Required clients not initialized"))
        ELSE CASE fp = 1 -> Throws(c, ch, <<>>, e)    \* info.getInfo
               [] fp = 2 -> Throws(c1, ch, <<>>, e)   \* getValuePropositions
               [] fp = 3 -> Throws(c2, ch, <<>>, e)   \* deriveBucketId
               [] fp = 4 -> Throws(c3, ch, <<>>, e)   \* createBucket rejects
               [] fp = 5 -> Throws(c3, ch, tx, e)     \* receipt not "success"
               [] fp = 6 -> Throws(c3, on, tx, e)     \* finalization / indexing wait
               [] OTHER  -> Returns(c3, on, tx)

storageRequestStage(c, ch, fp, e) ==
    LET c1  == Set(c, {"fileBlob"})
        c2  == Set(c1, {"fingerprint", "fileSize", "fileLocation"})
        c3  == Set(c2, {"fileKey"})
        on  == [ch EXCEPT !.storageRequest = TRUE]
        tx  == <<"issueStorageRequest">>
    IN  IF ~c.storageHubClient \/ ~c.mspClient \/ ~c.userApi
           \/ ~c.bucketId \/ ~c.mspId
        THEN Throws(c, ch, <<>>, Err("Required context not initialized"))
        ELSE CASE fp = 1 -> Throws(c, ch, <<>>, e)    \* readFile
               [] fp = 2 -> Throws(c1, ch, <<>>, e)   \* getFingerprint
               [] fp = 3 -> Throws(c2, ch, <<>>, e)   \* issueStorageRequest rejects
               [] fp = 4 -> Throws(c2, ch, tx, e)     \* receipt not "success"
               [] fp = 5 -> Throws(c2, on, tx, e)     \* waitForFinalization
               [] fp = 6 -> Throws(c3, on, tx, e)     \* on-chain verification
               [] OTHER  -> Returns(c3, on, tx)

fileUploadStage(c, ch, fp, e) ==
    LET c1  == Set(c, {"fileKey", "fileBlob"})
        up  == [ch EXCEPT !.file = TRUE]
    IN  IF ~c.mspClient \/ ~c.userApi \/ ~c.bucketId
           \/ ~c.fileLocation \/ ~c.fingerprint
        THEN Throws(c, ch, <<>>, Err("Required context not initialized"))
        ELSE CASE fp = 1 -> Throws(c, ch, <<>>, e)    \* readFile / computeFileKey
               [] fp = 2 -> Throws(c, ch, <<>>, e)    \* uploadWithRetry throws
               [] fp = 3 -> Throws(c, up, <<>>, e)    \* response check / pollBackend
               [] OTHER  -> Returns(c1, up, <<>>)

fileDownloadStage(c, ch, fp, e) ==
    IF ~c.mspClient \/ ~c.bucketId \/ ~c.fileKey \/ ~c.fingerprint
    THEN Throws(c, ch, <<>>, Err("Required context not initialized"))
    ELSE IF fp = 1 THEN Throws(c, ch, <<>>, e)   \* download / fingerprint mismatch
    ELSE Returns(c, ch, <<>>)

fileDeleteStage(c, ch, fp, e) ==
    LET off == [ch EXCEPT !.file = FALSE, !.storageRequest = FALSE]
        tx  == <<"requestDeleteFile">>
    IN  IF ~c.storageHubClient \/ ~c.mspClient \/ ~c.userApi \/ ~c.bucketId
           \/ ~c.fileKey \/ ~c.fileLocation \/ ~c.fingerprint \/ ~c.fileSize
        THEN Throws(c, ch, <<>>, Err("Required context not initialized"))
        ELSE CASE fp = 1 -> Throws(c, ch, <<>>, e)    \* requestDeleteFile rejects
               [] fp = 2 -> Throws(c, ch, tx, e)      \* receipt not "success"
               [] fp = 3 -> Throws(c, ch, tx, e)      \* event wait / file still listed
               [] OTHER  -> Returns(c, off, tx)

bucketDeleteStage(c, ch, fp, e) ==
    LET off == [ch EXCEPT !.bucket = FALSE]
        tx  == <<"deleteBucket">>
    IN  IF ~c.storageHubClient \/ ~c.mspClient \/ ~c.userApi \/ ~c.bucketId
        THEN Throws(c, ch, <<>>, Err("Required context not initialized"))
        ELSE CASE fp = 1 -> Throws(c, ch, <<>>, e)    \* deleteBucket rejects / no hash
               [] fp = 2 -> Throws(c, ch, tx, e)      \* receipt not "success"
               [] fp = 3 -> Throws(c, ch, tx, e)      \* bucket still on chain
               [] OTHER  -> Returns(c, off, tx)

\* stage.fn(ctx) for the stage called name
StageFn(name, c, ch, fp, e) ==
    CASE name = "connection"      -> connectionStage(c, ch, fp, e)
      [] name = "health"          -> healthStage(c, ch, fp, e)
      [] name = "auth"            -> authStage(c, ch, fp, e)
      [] name = "bucket-create"   -> bucketCreateStage(c, ch, fp, e)
      [] name = "storage-request" -> storageRequestStage(c, ch, fp, e)
      [] name = "file-upload"     -> fileUploadStage(c, ch, fp, e)
      [] name = "file-download"   -> fileDownloadStage(c, ch, fp, e)
      [] name = "file-delete"     -> fileDeleteStage(c, ch, fp, e)
      [] name = "bucket-delete"   -> bucketDeleteStage(c, ch, fp, e)

----------------------------------------------------------------------------
\* runStage (src/src/monitor/index.ts:30-54)

\* Variant of errorMsg that always records String(error).
errorMsgString(e) == e.str

\* const errorMsg = error instanceof Error ? error.message : String(error)
errorMsg(e) == IF e.isError THEN e.message ELSE e.str

\* The entry runStage pushes on results.
StageResult(name, out) ==
    IF out.ok THEN [stage |-> name, status |-> "passed", error |-> ""]
    ELSE [stage |-> name, status |-> "failed", error |-> errorMsg(out.error)]

SkippedResult(name) == [stage |-> name, status |-> "skipped", error |-> ""]

\* Variant of RunsStage that ignores the failed flag.
RunsStageAlways(f) == TRUE

\* Whether the loop body calls runStage for the current stage: `if (failed)`.
RunsStage(f) == ~f

\* One iteration of `for (const stage of STAGES)` with failed = false:
\* runStage invokes the stage function and records its outcome.
RunStage(fp, e) ==
    /\ pc = "loop"
    /\ stageIdx <= NumStages
    /\ RunsStage(failed)
    /\ LET name == STAGES[stageIdx]
           out  == StageFn(name, ctx, chain, fp, e)
       IN  /\ fp \in 0..FailPoints(name)
           /\ invoked' = Append(invoked, name)
           /\ thrown' = Append(thrown, out.error)
           /\ ctx' = out.ctx
           /\ chain' = out.chain
           /\ txLog' = txLog \o out.tx
           /\ results' = Append(results, StageResult(name, out))
           /\ failed' = ~out.ok
    /\ stageIdx' = stageIdx + 1
    /\ UNCHANGED <<pc, cleanupCalls, cleanupLog, badgeCalls, badgeFiles,
                   exitCode, rejection>>

\* Variant of SkipStage that omits the entry of a skipped stage.
SkipStageOmits ==
    /\ pc = "loop"
    /\ stageIdx <= NumStages
    /\ ~RunsStage(failed)
    /\ stageIdx' = stageIdx + 1
    /\ UNCHANGED <<pc, results, failed, ctx, chain, txLog, invoked, thrown,
                   cleanupCalls, cleanupLog, badgeCalls, badgeFiles, exitCode,
                   rejection>>

\* One iteration of the loop with failed = true: an explicit skipped entry.
SkipStage ==
    /\ pc = "loop"
    /\ stageIdx <= NumStages
    /\ ~RunsStage(failed)
    /\ results' = Append(results, SkippedResult(STAGES[stageIdx]))
    /\ stageIdx' = stageIdx + 1
    /\ UNCHANGED <<pc, failed, ctx, chain, txLog, invoked, thrown,
                   cleanupCalls,
                   cleanupLog, badgeCalls, badgeFiles, exitCode, rejection>>

\* The loop is exhausted: control enters the finally block.
LoopDone ==
    /\ pc = "loop"
    /\ stageIdx > NumStages
    /\ pc' = "cleanup"
    /\ UNCHANGED <<stageIdx, results, failed, ctx, chain, txLog, invoked, thrown,
                   cleanupCalls, cleanupLog, badgeCalls, badgeFiles, exitCode,
                   rejection>>

\* cleanup (src/src/monitor/index.ts:56-68): disconnects userApi if it is
\* set; a rejection of disconnect is caught and logged.
CleanupLogLine(disconnectRaises) ==
    IF disconnectRaises THEN "Failed to disconnect userApi"
    ELSE "Disconnected userApi"

\* Variant of Cleanup without the try/catch around disconnect: a rejection of
\* disconnect leaves the finally block before generateBadges.
CleanupRethrows(disconnectRaises) ==
    /\ pc = "cleanup"
    /\ cleanupCalls' = cleanupCalls + 1
    /\ IF ctx.userApi
       THEN cleanupLog' = Append(cleanupLog, CleanupLogLine(disconnectRaises))
       ELSE /\ cleanupLog' = cleanupLog
            /\ disconnectRaises = FALSE
    /\ pc' = IF disconnectRaises THEN "rejected" ELSE "badges"
    /\ rejection' = IF disconnectRaises THEN RawRejection ELSE rejection
    /\ UNCHANGED <<stageIdx, results, failed, ctx, chain, txLog, invoked, thrown,
                   badgeCalls, badgeFiles, exitCode>>

Cleanup(disconnectRaises) ==
    /\ pc = "cleanup"
    /\ cleanupCalls' = cleanupCalls + 1
    /\ IF ctx.userApi
       THEN cleanupLog' = Append(cleanupLog, CleanupLogLine(disconnectRaises))
       ELSE /\ cleanupLog' = cleanupLog
            /\ disconnectRaises = FALSE
    /\ pc' = "badges"
    /\ UNCHANGED <<stageIdx, results, failed, ctx, chain, txLog, invoked, thrown,
                   badgeCalls, badgeFiles, exitCode, rejection>>

----------------------------------------------------------------------------
\* generateBadges (src/src/monitor/utils/badges.ts)

\* Variant of STATUS_COLORS that paints a skipped stage red.
StatusColorsSkippedRed(status) ==
    IF status = "passed" THEN "brightgreen" ELSE "red"

\* STATUS_COLORS (badges.ts:27-31)
STATUS_COLORS(status) ==
    CASE status = "passed"  -> "brightgreen"
      [] status = "failed"  -> "red"
      [] status = "skipped" -> "lightgrey"

\* results.filter((r) => r.status === st).length
CountStatus(rs, st) == Cardinality({i \in 1..Len(rs) : rs[i].status = st})

\* The badge of one stage result (badges.ts:44-54), written to <stage>.json.
StageBadge(r) ==
    [file |-> r.stage, message |-> <<r.status>>, color |-> STATUS_COLORS(r.status)]

\* The summary badge (badges.ts:58-74), written to status.json; its message
\* `${n}/${total} failed|passed` is kept as the triple <<n, total, word>>.
SummaryBadge(rs) ==
    LET p == CountStatus(rs, "passed")
        f == CountStatus(rs, "failed")
        t == Len(rs)
    IN  [file    |-> "status",
         message |-> IF f > 0 THEN <<f, t, "failed">> ELSE <<p, t, "passed">>,
         color   |-> IF f > 0 THEN "red" ELSE "brightgreen"]

\* The files generateBadges writes when its k-th file-system call rejects
\* (k = 1: mkdir, k = 2..Len+1: a stage badge, k = Len+2: status.json);
\* k = 0: no call rejects.
BadgesWritten(rs, k) ==
    LET n == IF k = 0 THEN Len(rs) ELSE IF k <= 2 THEN 0
             ELSE IF k - 2 < Len(rs) THEN k - 2 ELSE Len(rs)
    IN  [i \in 1..n |-> StageBadge(rs[i])]
          \o (IF k = 0 THEN <<SummaryBadge(rs)>> ELSE <<>>)

\* `await generateBadges(results)` in the finally block (index.ts:125); it is
\* not guarded: a rejection leaves the finally block and rejects runMonitor.
GenerateBadges(k) ==
    /\ pc = "badges"
    /\ k \in 0..(Len(results) + 2)
    /\ badgeCalls' = Append(badgeCalls, results)
    /\ badgeFiles' = BadgesWritten(results, k)
    /\ IF k = 0
       THEN pc' = "summary" /\ rejection' = rejection
       ELSE pc' = "rejected" /\ rejection' = FsError
    /\ UNCHANGED <<stageIdx, results, failed, ctx, chain, txLog, invoked, thrown,
                   cleanupCalls, cleanupLog, exitCode>>

\* Variant of ExitCodeFor that reports success whatever the flag.
ExitCodeAlwaysZero(f) == 0

\* process.exitCode = failed ? 1 : 0 (index.ts:142-148)
ExitCodeFor(f) == IF f THEN 1 ELSE 0

Summary ==
    /\ pc = "summary"
    /\ exitCode' = ExitCodeFor(failed)
    /\ pc' = "done"
    /\ UNCHANGED <<stageIdx, results, failed, ctx, chain, txLog, invoked, thrown,
                   cleanupCalls, cleanupLog, badgeCalls, badgeFiles, rejection>>

\* runMonitor().catch((err) => { ...; process.exit(1) }) (index.ts:153-158)
CrashHandler ==
    /\ pc = "rejected"
    /\ exitCode' = 1
    /\ pc' = "exited"
    /\ UNCHANGED <<stageIdx, results, failed, ctx, chain, txLog, invoked, thrown,
                   cleanupCalls, cleanupLog, badgeCalls, badgeFiles, rejection>>

----------------------------------------------------------------------------
\* runSanitySuite (src/unnamed/part_005)

\* SANITY_TARGETS (part_005:37-45)
SANITY_TARGETS == {"connection", "health", "siwe", "upload", "download",
                   "delete", "full"}

\* The stages in the order runSanitySuite runs them (part_005:180-365).
SanityStages == <<"connection", "health", "siwe", "upload", "download",
                  "delete", "sdk">>

LocalNames == {"storageHubClient", "mspClient", "currentSession", "bucketName",
               "bucketId", "adolphusFileKey", "adolphusFileBlob",
               "randomFileKey", "randomFileBlob"}

NoLocals == [v \in LocalNames |-> FALSE]

Assign(l, names) == [v \in LocalNames |-> l[v] \/ v \in names]

NoChain == [bucket |-> FALSE, files |-> {}]

\* Outcome of a stage body, of cleanup, of a deletion check.
Done(l, ch, cr, del) ==
    [locals |-> l, chain |-> ch, created |-> cr, deletions |-> del,
     ok |-> TRUE, error |-> NoError]

Fails(l, ch, cr, del, e) ==
    [locals |-> l, chain |-> ch, created |-> cr, deletions |-> del,
     ok |-> FALSE, error |-> e]

\* assertPresent (part_005:72-77)
NotInitialized == Err("is not initialized")

\* A deletion attempt: runFileDeletionCheck / runBucketDeletionCheck was
\* invoked by `by` (a stage, cleanup, or the suite itself).
Attempt(by, what) == [by |-> by, what |-> what]

\* Number of fallible steps of each stage body.
SanityFailPoints(stage) ==
    CASE stage = "connection" -> 1
      [] stage = "health"     -> 1
      [] stage = "siwe"       -> 1
      [] stage = "upload"     -> 7
      [] stage = "download"   -> 2
      [] stage = "delete"     -> 4
      [] stage = "sdk"        -> 1

\* Largest number of fallible steps of a stage body.
MaxSanityFailPoint ==
    CHOOSE m \in {SanityFailPoints(SanityStages[i]) : i \in 1..Len(SanityStages)} :
        \A i \in 1..Len(SanityStages) : SanityFailPoints(SanityStages[i]) <= m

\* part_005:180-185
ConnectionBody(l, ch, cr, fp, e) ==
    IF fp = 1 THEN Fails(l, ch, cr, <<>>, e)       \* runConnectionCheck
    ELSE Done(Assign(l, {"storageHubClient", "mspClient"}), ch, cr, <<>>)

\* part_005:191-197
HealthBody(l, ch, cr, fp, e) ==
    IF ~l.mspClient THEN Fails(l, ch, cr, <<>>, NotInitialized)
    ELSE IF fp = 1 THEN Fails(l, ch, cr, <<>>, e)  \* runBackendHealthCheck
    ELSE Done(l, ch, cr, <<>>)

\* part_005:203-212
SiweBody(l, ch, cr, fp, e) ==
    IF ~l.mspClient THEN Fails(l, ch, cr, <<>>, NotInitialized)
    ELSE IF fp = 1 THEN Fails(l, ch, cr, <<>>, e)  \* runSiweAuthCheck
    ELSE Done(Assign(l, {"currentSession"}), ch, cr, <<>>)

\* part_005:218-293, with runBucketCreationCheck (src/src/sanity/bucket.ts:
\* 100-163) and runIssueStorageRequest (src/src/sanity/files.ts:235-304),
\* which assign nothing in the suite unless they return.
UploadBody(l, ch, cr, fp, e) ==
    LET l1  == Assign(l, {"bucketName", "bucketId"})
        l2  == Assign(l1, {"adolphusFileKey", "adolphusFileBlob"})
        l3  == Assign(l2, {"randomFileKey", "randomFileBlob"})
        ch1 == [ch EXCEPT !.bucket = TRUE]
        ch2 == [ch1 EXCEPT !.files = @ \cup {"adolphus"}]
        ch3 == [ch2 EXCEPT !.files = @ \cup {"random"}]
        cr1 == cr \cup {"bucket"}
        cr2 == cr1 \cup {"adolphus"}
        cr3 == cr2 \cup {"random"}
    IN  IF ~l.storageHubClient \/ ~l.mspClient
        THEN Fails(l, ch, cr, <<>>, NotInitialized)
        ELSE CASE fp = 1 -> Fails(l, ch, cr, <<>>, e)      \* createBucket tx not successful
               [] fp = 2 -> Fails(l, ch1, cr1, <<>>, e)    \* waitForBucketIndexed times out
               [] fp = 3 -> Fails(l1, ch1, cr1, <<>>, e)   \* value props / adolphus request tx
               [] fp = 4 -> Fails(l1, ch2, cr2, <<>>, e)   \* adolphus computeFileKey
               [] fp = 5 -> Fails(l2, ch2, cr2, <<>>, e)   \* adolphus upload / random request tx
               [] fp = 6 -> Fails(l2, ch3, cr3, <<>>, e)   \* random computeFileKey
               [] fp = 7 -> Fails(l3, ch3, cr3, <<>>, e)   \* random upload check
               [] OTHER  -> Done(l3, ch3, cr3, <<>>)

\* part_005:300-316
DownloadBody(l, ch, cr, fp, e) ==
    IF ~l.adolphusFileKey \/ ~l.adolphusFileBlob
    THEN Fails(l, ch, cr, <<>>,
               Err("Missing adolphus upload artifacts for download check."))
    ELSE IF ~l.mspClient THEN Fails(l, ch, cr, <<>>, NotInitialized)
    ELSE IF fp = 1 THEN Fails(l, ch, cr, <<>>, e)  \* adolphus download check
    ELSE IF ~l.randomFileKey \/ ~l.randomFileBlob
    THEN Fails(l, ch, cr, <<>>,
               Err("Missing random file artifacts for download check."))
    ELSE IF fp = 2 THEN Fails(l, ch, cr, <<>>, e)  \* random download check
    ELSE Done(l, ch, cr, <<>>)

\* part_005:323-345, with runFileDeletionCheck (src/src/sanity/files.ts:392-448)
DeleteBody(l, ch, cr, fp, e) ==
    LET a   == <<Attempt("delete", "adolphus")>>
        ar  == a \o <<Attempt("delete", "random")>>
        ch1 == [ch EXCEPT !.files = @ \ {"adolphus"}]
        ch2 == [ch1 EXCEPT !.files = @ \ {"random"}]
    IN  IF ~l.storageHubClient \/ ~l.mspClient \/ ~l.bucketId
           \/ ~l.adolphusFileKey
        THEN Fails(l, ch, cr, <<>>, NotInitialized)
        ELSE CASE fp = 1 -> Fails(l, ch, cr, a, e)     \* adolphus delete tx not successful
               [] fp = 2 -> Fails(l, ch1, cr, a, e)    \* adolphus still listed
               [] OTHER  ->
                    IF ~l.randomFileKey THEN Fails(l, ch1, cr, a, NotInitialized)
                    ELSE CASE fp = 3 -> Fails(l, ch1, cr, ar, e)
                           [] fp = 4 -> Fails(l, ch2, cr, ar, e)
                           [] OTHER  -> Done(l, ch2, cr, ar)

\* part_005:359-365
SdkBody(l, ch, cr, fp, e) ==
    IF fp = 1 THEN Fails(l, ch, cr, <<>>, e)       \* runHelloWorld
    ELSE Done(l, ch, cr, <<>>)

\* The function passed to runStage for the stage.
StageBody(stage, l, ch, cr, fp, e) ==
    CASE stage = "connection" -> ConnectionBody(l, ch, cr, fp, e)
      [] stage = "health"     -> HealthBody(l, ch, cr, fp, e)
      [] stage = "siwe"       -> SiweBody(l, ch, cr, fp, e)
      [] stage = "upload"     -> UploadBody(l, ch, cr, fp, e)
      [] stage = "download"   -> DownloadBody(l, ch, cr, fp, e)
      [] stage = "delete"     -> DeleteBody(l, ch, cr, fp, e)
      [] stage = "sdk"        -> SdkBody(l, ch, cr, fp, e)

\* Variant of shouldStopAt that never stops at a checkpoint.
shouldStopNever(t, checkpoint) == FALSE

\* shouldStopAt (part_005:68-70)
shouldStopAt(t, checkpoint) == t = checkpoint

\* Where runSanitySuite continues after runStage(stage, ...) returned
\* (part_005:187-189, 199-201, 214-216, 295-298, 318-321, 347-357, 367).
AfterStage(stage, t) ==
    CASE stage = "connection" ->
            IF shouldStopAt(t, "connection") THEN "finally" ELSE "health"
      [] stage = "health" ->
            IF shouldStopAt(t, "health") THEN "finally" ELSE "siwe"
      [] stage = "siwe" ->
            IF shouldStopAt(t, "siwe") THEN "finally" ELSE "upload"
      [] stage = "upload" ->
            IF shouldStopAt(t, "upload") THEN "stopCleanup" ELSE "download"
      [] stage = "download" ->
            IF shouldStopAt(t, "download") THEN "stopCleanup" ELSE "delete"
      [] stage = "delete" ->
            IF shouldStopAt(t, "delete") THEN "bucketDeletion" ELSE "sdk"
      [] stage = "sdk" -> "bucketDeletion"

\* The status runStage records (part_005:121-129).
StatusOf(ok) == IF ok THEN "passed" ELSE "failed"

\* runStage(stage, fn) followed by the shouldStopAt test behind it; a throw
\* of fn is rethrown to the catch block of runSanitySuite.
SanityRunStage(fp, e) ==
    /\ sanityPc \in {SanityStages[i] : i \in 1..Len(SanityStages)}
    /\ fp \in 0..SanityFailPoints(sanityPc)
    /\ LET out == StageBody(sanityPc, locals, sanityChain, created, fp, e)
       IN  /\ stagesRun' = Append(stagesRun, sanityPc)
           /\ locals' = out.locals
           /\ sanityChain' = out.chain
           /\ created' = out.created
           /\ deletions' = deletions \o out.deletions
           /\ stageStatuses' = [stageStatuses EXCEPT ![sanityPc] = StatusOf(out.ok)]
           /\ pending' = out.error
           /\ sanityPc' = IF out.ok THEN AfterStage(sanityPc, target) ELSE "catch"
    /\ UNCHANGED <<target, cleanups, sanityExit, statusFile>>

\* Variant of cleanup whose bucket-deletion step is not guarded by try/catch.
SanityCleanupRethrows(label, l, ch, fails) ==
    LET by  == "cleanup"
        dA  == IF l.adolphusFileKey THEN <<Attempt(by, "adolphus")>> ELSE <<>>
        dR  == IF l.randomFileKey THEN <<Attempt(by, "random")>> ELSE <<>>
        dB  == <<Attempt(by, "bucket")>>
    IN  IF ~l.storageHubClient \/ ~l.mspClient \/ ~l.bucketId \/ ~l.bucketName
        THEN Done(l, ch, {}, <<>>)
        ELSE IF "bucket" \in fails
        THEN Fails(l, ch, {}, dA \o dR \o dB, TimeoutError)
        ELSE Done(l, [ch EXCEPT !.bucket = FALSE], {}, dA \o dR \o dB)

\* Variant of cleanup with one try/catch around all three steps: the first
\* deletion check that throws ends the cleanup.
SanityCleanupAborts(label, l, ch, fails) ==
    LET by  == "cleanup"
        dA  == IF l.adolphusFileKey THEN <<Attempt(by, "adolphus")>> ELSE <<>>
        dR  == IF l.randomFileKey THEN <<Attempt(by, "random")>> ELSE <<>>
        dB  == <<Attempt(by, "bucket")>>
    IN  IF ~l.storageHubClient \/ ~l.mspClient \/ ~l.bucketId \/ ~l.bucketName
        THEN Done(l, ch, {}, <<>>)
        ELSE IF "adolphus" \in fails THEN Done(l, ch, {}, dA)
        ELSE IF "random" \in fails
        THEN Done(l, [ch EXCEPT !.files = @ \ {"adolphus"}], {}, dA \o dR)
        ELSE Done(l, [bucket |-> ch.bucket /\ "bucket" \in fails,
                      files |-> ch.files \ {"adolphus", "random"}], {},
                  dA \o dR \o dB)

\* cleanup(label) (part_005:131-175).  fails: the deletion checks that throw.
\* Every throw is caught inside cleanup and logged.
SanityCleanup(label, l, ch, fails) ==
    LET by  == "cleanup"
        dA  == IF l.adolphusFileKey THEN <<Attempt(by, "adolphus")>> ELSE <<>>
        dR  == IF l.randomFileKey THEN <<Attempt(by, "random")>> ELSE <<>>
        dB  == <<Attempt(by, "bucket")>>
        gone == {f \in {"adolphus", "random"} :
                    /\ f \notin fails
                    /\ (f = "adolphus" => l.adolphusFileKey)
                    /\ (f = "random" => l.randomFileKey)}
        ch1 == [bucket |-> ch.bucket /\ "bucket" \in fails,
                files  |-> ch.files \ gone]
    IN  IF ~l.storageHubClient \/ ~l.mspClient \/ ~l.bucketId \/ ~l.bucketName
        THEN Done(l, ch, {}, <<>>)
        ELSE Done(l, ch1, {}, dA \o dR \o dB)

\* The deletion checks a cleanup with these locals can invoke.
CleanupSteps(l) ==
    IF ~l.storageHubClient \/ ~l.mspClient \/ ~l.bucketId \/ ~l.bucketName
    THEN {}
    ELSE {"bucket"} \cup (IF l.adolphusFileKey THEN {"adolphus"} ELSE {})
                    \cup (IF l.randomFileKey THEN {"random"} ELSE {})

\* `await cleanup("upload" | "download"); return;` (part_005:295-298, 318-321)
StopCleanup(fails) ==
    /\ sanityPc = "stopCleanup"
    /\ fails \subseteq CleanupSteps(locals)
    /\ LET out == SanityCleanup(target, locals, sanityChain, fails)
       IN  /\ cleanups' = Append(cleanups, target)
           /\ sanityChain' = out.chain
           /\ deletions' = deletions \o out.deletions
           /\ pending' = out.error
           /\ sanityPc' = IF out.ok THEN "finally" ELSE "catch"
    /\ UNCHANGED <<target, stageStatuses, locals, created, stagesRun,
                   sanityExit, statusFile>>

\* runBucketDeletionCheck called by the suite itself, outside any stage
\* (part_005:347-357 for target "delete", 367-376 for target "full").
BucketDeletion(throws, e) ==
    /\ sanityPc = "bucketDeletion"
    /\ IF ~locals.storageHubClient \/ ~locals.mspClient
          \/ ~locals.bucketName \/ ~locals.bucketId
       THEN /\ throws
            /\ pending' = NotInitialized
            /\ UNCHANGED <<deletions, sanityChain>>
       ELSE /\ deletions' = Append(deletions, Attempt("suite", "bucket"))
            /\ pending' = IF throws THEN e ELSE NoError
            /\ sanityChain' = IF throws THEN sanityChain
                              ELSE [sanityChain EXCEPT !.bucket = FALSE]
    /\ sanityPc' = IF throws THEN "catch" ELSE "finally"
    /\ UNCHANGED <<target, stageStatuses, locals, created, stagesRun, cleanups,
                   sanityExit, statusFile>>

\* catch (error) { ...; await cleanup("failure"); process.exitCode = 1 }
\* (part_005:377-380)
Catch(fails) ==
    /\ sanityPc = "catch"
    /\ fails \subseteq CleanupSteps(locals)
    /\ LET out == SanityCleanup("failure", locals, sanityChain, fails)
       IN  /\ cleanups' = Append(cleanups, "failure")
           /\ sanityChain' = out.chain
           /\ deletions' = deletions \o out.deletions
    /\ sanityExit' = 1
    /\ sanityPc' = "finally"
    /\ UNCHANGED <<target, stageStatuses, locals, created, stagesRun, pending,
                   statusFile>>

\* finally { try { await writeStatusFile(...) } catch { log } } (part_005:381-387)
Finally(writeOk) ==
    /\ sanityPc = "finally"
    /\ statusFile' = IF writeOk THEN <<stageStatuses>> ELSE statusFile
    /\ sanityPc' = "done"
    /\ UNCHANGED <<target, stageStatuses, locals, sanityChain, created,
                   stagesRun, cleanups, deletions, pending, sanityExit>>

\* cleanup(label) invoked once more by the same run, after the first
\* invocation returned: the closure variables it reads (part_005:132, 137,
\* 151) are as the first invocation left them; cleanup assigns none of them.
CleanupAgain(fails) ==
    /\ sanityPc = "finally"
    /\ Len(cleanups) = 1
    /\ fails \subseteq CleanupSteps(locals)
    /\ LET out == SanityCleanup(cleanups[1], locals, sanityChain, fails)
       IN  /\ cleanups' = Append(cleanups, cleanups[1])
           /\ sanityChain' = out.chain
           /\ deletions' = deletions \o out.deletions
    /\ UNCHANGED <<sanityPc, target, stageStatuses, locals, created, stagesRun,
                   pending, sanityExit, statusFile>>

----------------------------------------------------------------------------
\* withConcurrency (src/src/monitor-heavy/index.ts:318-331)

\* Largest items.length and largest concurrency argument explored.
MaxItems == 4

MaxConcurrency == 3

\* A promise: pending, fulfilled, or rejected with a value.
Pending == [state |-> "pending", error |-> NoError]

Fulfilled == [state |-> "fulfilled", error |-> NoError]

Rejected(e) == [state |-> "rejected", error |-> e]

\* Variant of the worker count that is not clamped by the argument.
NumWorkersPlusOne(concurrency) == concurrency + 1

\* Math.max(1, concurrency) (index.ts:324)
NumWorkers(concurrency) == IF concurrency > 1 THEN concurrency ELSE 1

\* Variant of idx++ that leaves idx as it is.
PostIncrementStuck(i) == i

\* The value of idx after `const current = idx++` (index.ts:326)
PostIncrement(i) == i + 1

\* Variant of Promise.all that rejects again with each later rejection.
PromiseAllRejectsLast(outcome, e) == Rejected(e)

\* Promise.all(workers) when a worker rejects with e: the first rejection
\* settles the promise, later ones are ignored (index.ts:330).
PromiseAllRejects(outcome, e) ==
    IF outcome.state = "pending" THEN Rejected(e) ELSE outcome

\* Promise.all(workers) when a worker returns: fulfilled once every worker has.
PromiseAllFulfils(outcome, workers) ==
    IF outcome.state = "pending"
       /\ \A w \in DOMAIN workers : workers[w] = "returned"
    THEN Fulfilled ELSE outcome

\* The synchronous part of a call withConcurrency(items, concurrency, fn)
\* with items.length = n (index.ts:323-330): map runs each worker up to its
\* first await, so worker k takes index k-1 while idx < items.length and
\* invokes fn with it; a worker that finds idx >= items.length returns.
StartWorkers(n, concurrency) ==
    LET W == NumWorkers(concurrency)
        k == IF W < n THEN W ELSE n
        ws == [w \in 1..W |-> IF w <= k THEN "running" ELSE "returned"]
    IN  /\ wcIdx' = k
        /\ wcWorkers' = ws
        /\ wcCurrent' = [w \in 1..W |-> IF w <= k THEN w - 1 ELSE Unset]
        /\ wcInFlight' = {i \in 0..(n - 1) : i < k}
        /\ wcDispatched' = [i \in 1..k |-> i - 1]
        /\ wcOutcome' = PromiseAllFulfils(Pending, ws)
        /\ wcPc' = "awaiting"

WithConcurrencyCall ==
    /\ wcPc = "called"
    /\ StartWorkers(wcItems, wcConcurrency)
    /\ UNCHANGED <<wcItems, wcConcurrency, wcRaised>>

\* `await fn(items[current], current)` of worker w fulfils: the worker tests
\* `idx < items.length` again and either takes the next index or returns
\* (index.ts:325-328).
FnFulfils(w) ==
    /\ wcPc = "awaiting"
    /\ w \in DOMAIN wcWorkers
    /\ wcWorkers[w] = "running"
    /\ IF wcIdx < wcItems
       THEN /\ wcCurrent' = [wcCurrent EXCEPT ![w] = wcIdx]
            /\ wcIdx' = PostIncrement(wcIdx)
            /\ wcInFlight' = (wcInFlight \ {wcCurrent[w]}) \cup {wcIdx}
            /\ wcDispatched' = Append(wcDispatched, wcIdx)
            /\ UNCHANGED <<wcWorkers, wcOutcome>>
       ELSE /\ wcWorkers' = [wcWorkers EXCEPT ![w] = "returned"]
            /\ wcInFlight' = wcInFlight \ {wcCurrent[w]}
            /\ wcOutcome' = PromiseAllFulfils(wcOutcome, wcWorkers')
            /\ UNCHANGED <<wcIdx, wcCurrent, wcDispatched>>
    /\ UNCHANGED <<wcPc, wcItems, wcConcurrency, wcRaised>>

\* `await fn(items[current], current)` of worker w rejects with e: the worker
\* rejects, and with it Promise.all unless it is settled already; the other
\* workers go on (index.ts:325-330).
FnRejects(w, e) ==
    /\ wcPc = "awaiting"
    /\ w \in DOMAIN wcWorkers
    /\ wcWorkers[w] = "running"
    /\ wcWorkers' = [wcWorkers EXCEPT ![w] = "threw"]
    /\ wcInFlight' = wcInFlight \ {wcCurrent[w]}
    /\ wcRaised' = Append(wcRaised, [item |-> wcCurrent[w], error |-> e])
    /\ wcOutcome' = PromiseAllRejects(wcOutcome, e)
    /\ UNCHANGED <<wcPc, wcItems, wcConcurrency, wcIdx, wcCurrent, wcDispatched>>

----------------------------------------------------------------------------
\* uploadWithRetry (src/src/monitor-heavy/index.ts:138-217)

\* opts.maxTotalMs ?? 8 * 60_000 (index.ts:152)
DefaultMaxTotalMs == 480000

\* opts.maxDelayMs ?? 60_000 (index.ts:153)
DefaultMaxDelayMs == 60000

\* opts.retries ?? 5 (index.ts:156)
DefaultRetries == 5

\* opts.delayMs ?? 10_000 (index.ts:157)
DefaultDelayMs == 10000

RECURSIVE Pow(_, _)

RECURSIVE ScaledDelay(_)

\* a ?? b, with Unset for an absent option
OrDefault(a, b) == IF a = Unset THEN b ELSE a

maxTotalMs == OrDefault(urOpts.maxTotalMs, DefaultMaxTotalMs)

maxDelayMs == OrDefault(urOpts.maxDelayMs, DefaultMaxDelayMs)

minRetries == OrDefault(urOpts.retries, DefaultRetries)

baseDelayMs == OrDefault(urOpts.delayMs, DefaultDelayMs)

\* The option values explored, next to the absent option.
RetriesChoices == {Unset, 2}

DelayMsChoices == {Unset, 15001, 20000}

MaxTotalMsChoices == {Unset, 60000}

MaxDelayMsChoices == {Unset, 30000}

\* How long an uploadFile or reAuth call takes to settle, and by how much a
\* timer fires late, in ms.
CallDurations == {1000, 120000}

TimerLateness == {0, 5}

\* What uploadFile rejects with.
Http403 == Err("HTTP 403 Forbidden")

Http404 == Err("HTTP 404 Not Found")

Http500 == Err("HTTP 500 Internal Server Error")

RawTimedOut == [isError |-> FALSE, message |-> "", str |-> "request timed out"]

\* The Domain-Conflict error of the chain, the one deleteFilesWithRetry
\* looks for (index.ts:913).
DomainConflict == Err("FileHasActiveStorageRequest")

UploadErrors ==
    {Http403, Http404, Http500, RawTimedOut, RawRejection, DomainConflict}

\* new Error("upload failed after retry window elapsed") (index.ts:163)
WindowElapsed == Err("upload failed after retry window elapsed")

\* msg.includes(sub) on the messages above.
Includes(msg, sub) ==
    sub \in (CASE msg = "HTTP 403 Forbidden" -> {"HTTP 403"}
               [] msg = "HTTP 404 Not Found" -> {"HTTP 404"}
               [] msg = "request timed out"  -> {"timed out"}
               [] OTHER -> {})

\* shouldRetry (index.ts:183-189)
shouldRetry(msg) ==
    \/ Includes(msg, "not expecting")
    \/ Includes(msg, "HTTP 400")
    \/ Includes(msg, "HTTP 403")
    \/ Includes(msg, "HTTP 404")
    \/ Includes(msg, "timeout")
    \/ Includes(msg, "timed out")

\* Variant of the give-up test that ignores the minimum number of attempts.
windowElapsedOnly(attempt, elapsed) == elapsed > maxTotalMs

\* attempt >= minRetries && elapsed > maxTotalMs (index.ts:162, 202)
retryWindowOver(attempt, elapsed) ==
    attempt >= minRetries /\ elapsed > maxTotalMs

\* b to the power k
Pow(b, k) == IF k = 0 THEN 1 ELSE b * Pow(b, k - 1)

\* baseDelayMs * Math.pow(1.5, k) as the quotient q and remainder r of
\* baseDelayMs * 3^k by 2^k, computed from the values for k - 1 so that the
\* products stay small; over: q exceeds maxDelayMs, and then so does every
\* later value, the delays growing with k.
ScaledDelay(k) ==
    IF k = 0
    THEN [q |-> baseDelayMs, r |-> 0, over |-> baseDelayMs > maxDelayMs]
    ELSE LET p == ScaledDelay(k - 1)
             n == ((3 * p.q) % 2) * Pow(2, k - 1) + 3 * p.r
             q2 == (3 * p.q) \div 2 + n \div Pow(2, k)
         IN  IF p.over THEN p
             ELSE [q |-> q2, r |-> n % Pow(2, k), over |-> q2 > maxDelayMs]

\* Variant of nextDelay whose exponent is attempt instead of attempt - 1.
nextDelayFromAttempt(attempt) ==
    LET d == ScaledDelay(attempt)
    IN  IF d.over THEN maxDelayMs ELSE d.q

\* Math.min(maxDelayMs, Math.floor(baseDelayMs * Math.pow(1.5, attempt - 1)))
\* (index.ts:206-209)
nextDelay(attempt) ==
    LET d == ScaledDelay(attempt - 1)
    IN  IF d.over THEN maxDelayMs ELSE d.q

\* Variant of the guarded reAuth call in which a rejection is not caught.
reAuthRejectionEscapes(ok) == ok

\* try { await opts.reAuth() } catch { /* ignore */ } completes normally
\* whether reAuth fulfilled (ok) or rejected (index.ts:192-198).
reAuthCompletes(ok) == TRUE

\* The top of the while loop (index.ts:161-165), reached at elapsed time t:
\* throw WindowElapsed, or count the attempt and call uploadFile.
LoopTop(t) ==
    /\ urElapsed' = t
    /\ IF retryWindowOver(urAttempt, t)
       THEN /\ urOutcome' = Rejected(WindowElapsed)
            /\ urPc' = "thrown"
            /\ UNCHANGED urAttempt
       ELSE /\ urAttempt' = urAttempt + 1
            /\ urPc' = "uploading"
            /\ UNCHANGED urOutcome

\* The rest of the catch block behind the reAuth part (index.ts:200-214),
\* reached at elapsed time t with the caught error e.
AfterReAuth(t, e) ==
    /\ urElapsed' = t
    /\ IF shouldRetry(errorMsg(e)) /\ ~retryWindowOver(urAttempt, t)
       THEN /\ urDelay' = nextDelay(urAttempt)
            /\ urPc' = "sleeping"
            /\ UNCHANGED urOutcome
       ELSE /\ urOutcome' = Rejected(e)
            /\ urPc' = "thrown"
            /\ UNCHANGED urDelay

\* The call up to its first await (index.ts:151-168).
UploadWithRetryCall ==
    /\ urPc = "called"
    /\ LoopTop(0)
    /\ UNCHANGED <<urOpts, urError, urReAuth, urDelay>>

\* uploadFile fulfils after dt ms: return its value (index.ts:168).
UploadFulfils(dt) ==
    /\ urPc = "uploading"
    /\ urElapsed' = urElapsed + dt
    /\ urOutcome' = Fulfilled
    /\ urPc' = "returned"
    /\ UNCHANGED <<urOpts, urAttempt, urError, urReAuth, urDelay>>

\* uploadFile rejects with e after dt ms (index.ts:175-214): on "HTTP 403"
\* the catch block awaits reAuth, otherwise it runs to its end.
UploadRejects(e, dt) ==
    /\ urPc = "uploading"
    /\ urError' = e
    /\ IF Includes(errorMsg(e), "HTTP 403")
       THEN /\ urPc' = "reauth"
            /\ urElapsed' = urElapsed + dt
            /\ urReAuth' = "none"
            /\ UNCHANGED <<urDelay, urOutcome>>
       ELSE /\ AfterReAuth(urElapsed + dt, e)
            /\ urReAuth' = "none"
    /\ UNCHANGED <<urOpts, urAttempt>>

\* opts.reAuth() settles after dt ms, fulfilled (ok) or rejected.
ReAuthSettles(ok, dt) ==
    /\ urPc = "reauth"
    /\ urReAuth' = IF ok THEN "fulfilled" ELSE "rejected"
    /\ IF reAuthCompletes(ok)
       THEN AfterReAuth(urElapsed + dt, urError)
       ELSE /\ urElapsed' = urElapsed + dt
            /\ urOutcome' = Rejected(TimeoutError)
            /\ urPc' = "thrown"
            /\ UNCHANGED urDelay
    /\ UNCHANGED <<urOpts, urAttempt, urError>>

\* sleep(nextDelay) ends, late ms after the delay: `continue` (index.ts:210-211).
SleepEnds(late) ==
    /\ urPc = "sleeping"
    /\ LoopTop(urElapsed + urDelay + late)
    /\ UNCHANGED <<urOpts, urError, urReAuth, urDelay>>

----------------------------------------------------------------------------
\* runMonitorHeavy (src/src/monitor-heavy/index.ts:439-1096)

\* HEAVY_CONFIG.initialFileCount, deleteFirstCount, secondBatchCount
\* (index.ts:224-226), scaled down.
initialFileCount == 4

deleteFirstCount == 2

secondBatchCount == 1

\* HEAVY_CONFIG.uploadConcurrency (index.ts:233)
uploadConcurrency == 3

\* HEAVY_CONFIG.srConfirmConcurrency (index.ts:244)
srConfirmConcurrency == 3

\* HEAVY_CONFIG.deleteRetryDelaysMs (index.ts:256)
deleteRetryDelaysMs == <<30000, 60000, 90000>>

\* Largest number of polling rounds of waitReady before its deadline
\* (readyPollTotalMs) has passed.
MaxReadyRounds == 2

\* The files of a batch, numbered in the order createRandomFiles made them
\* (index.ts:953-956, 979-982).
FilesOfBatch(b) ==
    IF b = 1 THEN [i \in 1..initialFileCount |-> i]
    ELSE [i \in 1..secondBatchCount |-> initialFileCount + i]

\* The argument of deleteFilesWithRetry: initialFiles.slice(0, deleteFirstCount)
\* after batch 1, [...initialFiles.slice(deleteFirstCount), ...newFiles] after
\* batch 2 (index.ts:973, 1001-1002).
DeleteFiles(b) ==
    LET k == IF deleteFirstCount < initialFileCount
             THEN deleteFirstCount ELSE initialFileCount
    IN  IF b = 1 THEN SubSeq(FilesOfBatch(1), 1, k)
        ELSE SubSeq(FilesOfBatch(1), k + 1, initialFileCount) \o FilesOfBatch(2)

\* HeavyPhaseResult["name"] of the phases that depend on the batch.
SrPhase(b) ==
    IF b = 1 THEN "storage-request-batch1" ELSE "storage-request-batch2"

UploadPhase(b) == IF b = 1 THEN "upload-batch1" ELSE "upload-batch2"

DeletePhase(b) == IF b = 1 THEN "file-delete-first5" ELSE "file-delete-all10"

\* A ledger transaction submission: the call has been made and its tx hash
\* has not been returned yet.
Tx(kind, file) == [kind |-> kind, file |-> file]

\* endPhasePassed (index.ts:507-515)
endPhasePassed(phases, active) ==
    IF active = "none" THEN phases
    ELSE Append(phases, [name |-> active, status |-> "passed", error |-> ""])

\* An await of the try block fulfils and runMonitorHeavy runs on to its next
\* await, at `label`, with this phases array and active phase.
Proceed(label, phases, active) ==
    /\ hmPc' = label
    /\ hmPhases' = phases
    /\ hmActive' = active
    /\ UNCHANGED <<hmFailed, hmErr, hmWrites, hmExit>>

\* An await of the try block rejects with e, or the block throws e: the catch
\* block (index.ts:1030-1044) and the finally block up to its first await,
\* the call of writeHeavyOutputs (index.ts:1045-1051).
ThrowInTry(e) ==
    /\ hmFailed' = TRUE
    /\ hmPhases' = IF hmActive = "none" THEN hmPhases
                   ELSE Append(hmPhases, [name |-> hmActive, status |-> "failed",
                                          error |-> errorMsg(e)])
    /\ hmActive' = "none"
    /\ hmExit' = 1
    /\ hmErr' = e
    /\ hmWrites' = Append(hmWrites, "failed")
    /\ hmPc' = "writing"

\* A call withConcurrency(items, concurrency, fn) with items.length = n, made
\* for `use`.
CallWithConcurrency(n, concurrency, use) ==
    /\ wcItems' = n
    /\ wcConcurrency' = concurrency
    /\ wcRaised' = <<>>
    /\ StartWorkers(n, concurrency)
    /\ hmConcFor' = use

\* getNetworkConfig / getPrivateKey, MspClient.connect, reAuth and
\* createUserApi (index.ts:440-496), in this order, all before the try block:
\* a throw or rejection of any of them rejects runMonitorHeavy at once.
SetupSteps == <<"config", "connect", "siwe", "userApi">>

HeavySetup(ok, e) ==
    /\ \E i \in 1..Len(SetupSteps) :
          /\ hmPc = SetupSteps[i]
          /\ IF ok
             THEN /\ hmPc' = IF i < Len(SetupSteps) THEN SetupSteps[i + 1]
                             ELSE "initWasm"
                  /\ UNCHANGED hmErr
             ELSE /\ hmPc' = "rejected"
                  /\ hmErr' = e
    /\ UNCHANGED <<hmPhases, hmActive, hmFailed, hmWrites, hmExit, hmStatusFile,
                   hmSr, hmDel, hmTxInFlight, hmConcFor, hmRound, wcVars>>

\* await initWasm() (index.ts:518), then beginPhase("bucket-create") and the
\* awaits up to the createBucket call.
InitWasm(ok, e) ==
    /\ hmPc = "initWasm"
    /\ IF ok THEN Proceed("bucketCreate.pre", hmPhases, "bucket-create")
       ELSE ThrowInTry(e)
    /\ UNCHANGED <<hmStatusFile, hmSr, hmDel, hmTxInFlight, hmConcFor, hmRound,
                   wcVars>>

\* getInfo, getValuePropositions, deriveBucketId, buildGasTxOpts, then the
\* call of createBucket (index.ts:525-545).
BucketCreatePre(ok, e) ==
    /\ hmPc = "bucketCreate.pre"
    /\ IF ok
       THEN /\ Proceed("bucketCreate.tx", hmPhases, hmActive)
            /\ hmTxInFlight' = hmTxInFlight \cup {Tx("createBucket", 0)}
       ELSE /\ ThrowInTry(e)
            /\ UNCHANGED hmTxInFlight
    /\ UNCHANGED <<hmStatusFile, hmSr, hmDel, hmConcFor, hmRound, wcVars>>

\* createBucket returns its tx hash, or throws / returns none (index.ts:539-546).
BucketCreateTx(ok, e) ==
    /\ hmPc = "bucketCreate.tx"
    /\ hmTxInFlight' = hmTxInFlight \ {Tx("createBucket", 0)}
    /\ IF ok THEN Proceed("bucketCreate.post", hmPhases, hmActive)
       ELSE ThrowInTry(e)
    /\ UNCHANGED <<hmStatusFile, hmSr, hmDel, hmConcFor, hmRound, wcVars>>

\* The receipt and the two pollBackend waits, endPhasePassed, then the
\* computeFingerprintAndKey loop over the initial files (index.ts:547-573,
\* 953-960).
BucketCreatePost(ok, e) ==
    /\ hmPc = "bucketCreate.post"
    /\ IF ok THEN Proceed("keys", endPhasePassed(hmPhases, hmActive), "none")
       ELSE ThrowInTry(e)
    /\ UNCHANGED <<hmStatusFile, hmSr, hmDel, hmTxInFlight, hmConcFor, hmRound,
                   wcVars>>

\* `for (const f of files) await computeFingerprintAndKey(f)`, outside any
\* phase, then beginPhase and issueStorageRequestSeq up to the first
\* buildGasTxOpts (index.ts:960-962, 988-990, 604-643).
ComputeKeys(ok, e) ==
    /\ hmPc = "keys"
    /\ IF ok
       THEN /\ Proceed("sr.gas", hmPhases, SrPhase(hmBatch))
            /\ hmI' = 0
            /\ hmSubmitted' = <<>>
            /\ UNCHANGED hmBatch
       ELSE /\ ThrowInTry(e)
            /\ UNCHANGED hmSr
    /\ UNCHANGED <<hmStatusFile, hmDel, hmTxInFlight, hmConcFor, hmRound, wcVars>>

\* buildGasTxOpts of iteration i settles; on success issueStorageRequest is
\* called for files[i] (index.ts:634-644).
SrGas(ok, e) ==
    /\ hmPc = "sr.gas"
    /\ IF ok
       THEN /\ Proceed("sr.tx", hmPhases, hmActive)
            /\ hmTxInFlight' = hmTxInFlight \cup
                  {Tx("issueStorageRequest", FilesOfBatch(hmBatch)[hmI + 1])}
       ELSE /\ ThrowInTry(e)
            /\ UNCHANGED hmTxInFlight
    /\ UNCHANGED <<hmStatusFile, hmSr, hmDel, hmConcFor, hmRound, wcVars>>

\* Variant of submitted.push that drops the record.
RecordDropped(submitted, f) == submitted

\* submitted.push({ idx, file: f, tx }) (index.ts:647)
RecordSubmitted(submitted, f) == Append(submitted, f)

\* issueStorageRequest returns its tx hash, which is pushed to submitted, or
\* throws / returns none (index.ts:634-650).
SrTx(ok, e) ==
    /\ hmPc = "sr.tx"
    /\ hmTxInFlight' = hmTxInFlight \
          {Tx("issueStorageRequest", FilesOfBatch(hmBatch)[hmI + 1])}
    /\ IF ok
       THEN /\ Proceed("sr.spacing", hmPhases, hmActive)
            /\ hmSubmitted' =
                  RecordSubmitted(hmSubmitted, FilesOfBatch(hmBatch)[hmI + 1])
            /\ UNCHANGED <<hmBatch, hmI>>
       ELSE /\ ThrowInTry(e)
            /\ UNCHANGED hmSr
    /\ UNCHANGED <<hmStatusFile, hmDel, hmConcFor, hmRound, wcVars>>

\* sleep(srSubmitSpacingMs) ends: the next iteration, or after the last one
\* the call of withConcurrency that confirms the submitted requests
\* (index.ts:650-662).
SrSpacingEnds ==
    /\ hmPc = "sr.spacing"
    /\ hmI' = hmI + 1
    /\ IF hmI + 1 < Len(FilesOfBatch(hmBatch))
       THEN /\ hmPc' = "sr.gas"
            /\ UNCHANGED <<wcVars, hmConcFor>>
       ELSE /\ hmPc' = "sr.confirm"
            /\ CallWithConcurrency(Len(hmSubmitted), srConfirmConcurrency,
                                   "confirm")
    /\ UNCHANGED <<hmFlow, hmStatusFile, hmBatch, hmSubmitted, hmDel,
                   hmTxInFlight, hmRound>>

\* sleep(postStorageRequestBulkWaitMs) ends: beginPhase and uploadFilesParallel
\* up to its call of withConcurrency (index.ts:966-968, 994-996, 699-729).
BulkWaitEnds ==
    /\ hmPc = "bulkWait"
    /\ Proceed("upload", hmPhases, UploadPhase(hmBatch))
    /\ CallWithConcurrency(Len(FilesOfBatch(hmBatch)), uploadConcurrency,
                           "upload")
    /\ UNCHANGED <<hmStatusFile, hmSr, hmDel, hmTxInFlight, hmRound>>

\* The awaited withConcurrency call is fulfilled.  cleared: every storage
\* request was found cleared by the polling round that ended (index.ts:823-841).
ConcurrencyFulfilled(cleared) ==
    /\ wcPc = "awaiting"
    /\ wcOutcome.state = "fulfilled"
    /\ CASE hmPc = "sr.confirm" ->
              \* issueStorageRequestSeq returns; endPhasePassed; sleep
              /\ Proceed("bulkWait", endPhasePassed(hmPhases, hmActive), "none")
              /\ UNCHANGED <<wcVars, hmConcFor, hmRound>>
         [] hmPc = "upload" ->
              \* uploadFilesParallel returns; waitReady starts its first round
              /\ Proceed("ready.query", hmPhases, hmActive)
              /\ CallWithConcurrency(Len(FilesOfBatch(hmBatch)),
                                     uploadConcurrency, "query")
              /\ hmRound' = 1
         [] hmPc = "ready.query" ->
              /\ Proceed(IF cleared THEN "ready.tree" ELSE "ready.sleep",
                         hmPhases, hmActive)
              /\ UNCHANGED <<wcVars, hmConcFor, hmRound>>
         [] hmPc = "delete.cleared" ->
              /\ Proceed("delete.tree", hmPhases, hmActive)
              /\ UNCHANGED <<wcVars, hmConcFor, hmRound>>
         [] OTHER -> FALSE
    /\ UNCHANGED <<hmStatusFile, hmSr, hmDel, hmTxInFlight>>

\* The awaited withConcurrency call is rejected; its workers still running
\* are left running.
ConcurrencyRejected ==
    /\ wcPc = "awaiting"
    /\ wcOutcome.state = "rejected"
    /\ hmPc \in {"sr.confirm", "upload", "ready.query", "delete.cleared"}
    /\ ThrowInTry(wcOutcome.error)
    /\ UNCHANGED <<hmStatusFile, hmSr, hmDel, hmTxInFlight, hmConcFor, hmRound,
                   wcVars>>

\* sleep(readyPollIntervalMs) of waitReady ends (index.ts:809-852): past the
\* deadline the loop breaks and the timeout is thrown, otherwise the next
\* polling round starts.
ReadySleepEnds(expired) ==
    /\ hmPc = "ready.sleep"
    /\ expired \/ hmRound < MaxReadyRounds
    /\ IF expired
       THEN /\ ThrowInTry(Err("Timeout waiting for storageRequests to clear"))
            /\ UNCHANGED <<wcVars, hmConcFor, hmRound>>
       ELSE /\ Proceed("ready.query", hmPhases, hmActive)
            /\ CallWithConcurrency(Len(FilesOfBatch(hmBatch)),
                                   uploadConcurrency, "query")
            /\ hmRound' = hmRound + 1
    /\ UNCHANGED <<hmStatusFile, hmSr, hmDel, hmTxInFlight>>

\* waitUntilFilesReadyViaTree settles; on success endPhasePassed, beginPhase
\* and deleteFilesWithRetry up to the first getFileInfo (index.ts:856,
\* 970-975, 998-1004, 859-885).
ReadyTree(ok, e) ==
    /\ hmPc = "ready.tree"
    /\ IF ok
       THEN /\ Proceed("delete.pre", endPhasePassed(hmPhases, hmActive),
                       DeletePhase(hmBatch))
            /\ hmAttempt' = 1
            /\ hmRemaining' = DeleteFiles(hmBatch)
            /\ hmJ' = 1
            /\ hmFailedFiles' = <<>>
       ELSE /\ ThrowInTry(e)
            /\ UNCHANGED hmDel
    /\ UNCHANGED <<hmStatusFile, hmSr, hmTxInFlight, hmConcFor, hmRound, wcVars>>

\* The end of one iteration of `for (const f of remaining)`, with the files
\* that failed so far in this attempt (index.ts:882-931): the next file, or
\* `remaining = failed` and then the break or the backoff sleep.
AfterFile(failedNow) ==
    IF hmJ < Len(hmRemaining)
    THEN /\ hmJ' = hmJ + 1
         /\ hmFailedFiles' = failedNow
         /\ hmPc' = "delete.pre"
         /\ UNCHANGED <<hmAttempt, hmRemaining, wcVars, hmConcFor>>
    ELSE /\ hmRemaining' = failedNow
         /\ hmFailedFiles' = failedNow
         /\ UNCHANGED <<hmJ, hmAttempt>>
         /\ IF failedNow = <<>>
            THEN /\ hmPc' = "delete.cleared"
                 /\ CallWithConcurrency(Len(DeleteFiles(hmBatch)),
                                        uploadConcurrency, "cleared")
            ELSE /\ hmPc' = "delete.backoff"
                 /\ UNCHANGED <<wcVars, hmConcFor>>

\* getFileInfo and buildGasTxOpts for remaining[j] settle: requestDeleteFile
\* is called, or the failure is caught and the file kept (index.ts:885-920).
DeletePre(ok) ==
    /\ hmPc = "delete.pre"
    /\ IF ok
       THEN /\ hmPc' = "delete.tx"
            /\ hmTxInFlight' = hmTxInFlight \cup
                  {Tx("requestDeleteFile", hmRemaining[hmJ])}
            /\ UNCHANGED <<hmDel, wcVars, hmConcFor>>
       ELSE /\ AfterFile(Append(hmFailedFiles, hmRemaining[hmJ]))
            /\ UNCHANGED hmTxInFlight
    /\ UNCHANGED <<hmFlow, hmStatusFile, hmSr, hmRound>>

\* requestDeleteFile returns its tx hash, or throws / returns none.
DeleteTx(ok) ==
    /\ hmPc = "delete.tx"
    /\ hmTxInFlight' = hmTxInFlight \ {Tx("requestDeleteFile", hmRemaining[hmJ])}
    /\ IF ok
       THEN /\ hmPc' = "delete.receipt"
            /\ UNCHANGED <<hmDel, wcVars, hmConcFor>>
       ELSE AfterFile(Append(hmFailedFiles, hmRemaining[hmJ]))
    /\ UNCHANGED <<hmFlow, hmStatusFile, hmSr, hmRound>>

\* waitForTransactionReceipt and sleep(500) (index.ts:904-909).
DeleteReceipt(ok) ==
    /\ hmPc = "delete.receipt"
    /\ IF ok THEN AfterFile(hmFailedFiles)
       ELSE AfterFile(Append(hmFailedFiles, hmRemaining[hmJ]))
    /\ UNCHANGED <<hmFlow, hmStatusFile, hmSr, hmTxInFlight, hmRound>>

\* sleep(deleteRetryDelaysMs[attempt - 1]) ends: attempt++, then the next
\* attempt over `remaining`, or past the last attempt the call of
\* withConcurrency that waits for the storage requests to clear
\* (index.ts:872-876, 930-946).
DeleteBackoffEnds ==
    /\ hmPc = "delete.backoff"
    /\ hmAttempt' = hmAttempt + 1
    /\ IF hmAttempt + 1 <= Len(deleteRetryDelaysMs)
       THEN /\ hmPc' = "delete.pre"
            /\ hmJ' = 1
            /\ hmFailedFiles' = <<>>
            /\ UNCHANGED <<hmRemaining, wcVars, hmConcFor>>
       ELSE /\ hmPc' = "delete.cleared"
            /\ CallWithConcurrency(Len(DeleteFiles(hmBatch)), uploadConcurrency,
                                   "cleared")
            /\ UNCHANGED <<hmRemaining, hmJ, hmFailedFiles>>
    /\ UNCHANGED <<hmFlow, hmStatusFile, hmSr, hmTxInFlight, hmRound>>

\* waitUntilFilesAbsentViaTree settles; on success endPhasePassed, then the
\* second batch, or after it beginPhase("bucket-delete") and buildGasTxOpts
\* (index.ts:947, 976-988, 1005-1013).
DeleteTree(ok, e) ==
    /\ hmPc = "delete.tree"
    /\ IF ok
       THEN IF hmBatch = 1
            THEN /\ Proceed("keys", endPhasePassed(hmPhases, hmActive), "none")
                 /\ hmBatch' = 2
                 /\ UNCHANGED <<hmI, hmSubmitted>>
            ELSE /\ Proceed("bucketDelete.pre",
                            endPhasePassed(hmPhases, hmActive), "bucket-delete")
                 /\ UNCHANGED hmSr
       ELSE /\ ThrowInTry(e)
            /\ UNCHANGED hmSr
    /\ UNCHANGED <<hmStatusFile, hmDel, hmTxInFlight, hmConcFor, hmRound, wcVars>>

\* buildGasTxOpts settles; on success deleteBucket is called (index.ts:1010-1013).
BucketDeletePre(ok, e) ==
    /\ hmPc = "bucketDelete.pre"
    /\ IF ok
       THEN /\ Proceed("bucketDelete.tx", hmPhases, hmActive)
            /\ hmTxInFlight' = hmTxInFlight \cup {Tx("deleteBucket", 0)}
       ELSE /\ ThrowInTry(e)
            /\ UNCHANGED hmTxInFlight
    /\ UNCHANGED <<hmStatusFile, hmSr, hmDel, hmConcFor, hmRound, wcVars>>

\* deleteBucket returns its tx hash, or throws / returns none (index.ts:1010-1014).
BucketDeleteTx(ok, e) ==
    /\ hmPc = "bucketDelete.tx"
    /\ hmTxInFlight' = hmTxInFlight \ {Tx("deleteBucket", 0)}
    /\ IF ok THEN Proceed("bucketDelete.post", hmPhases, hmActive)
       ELSE ThrowInTry(e)
    /\ UNCHANGED <<hmStatusFile, hmSr, hmDel, hmConcFor, hmRound, wcVars>>

\* The receipt and the pollBackend wait; on success endPhasePassed,
\* process.exitCode = 0 and the finally block up to the call of
\* writeHeavyOutputs (index.ts:1015-1029, 1045-1051).
BucketDeletePost(ok, e) ==
    /\ hmPc = "bucketDelete.post"
    /\ IF ok
       THEN /\ hmPhases' = endPhasePassed(hmPhases, hmActive)
            /\ hmActive' = "none"
            /\ hmExit' = 0
            /\ hmWrites' = Append(hmWrites, "success")
            /\ hmPc' = "writing"
            /\ UNCHANGED <<hmFailed, hmErr>>
       ELSE ThrowInTry(e)
    /\ UNCHANGED <<hmStatusFile, hmSr, hmDel, hmTxInFlight, hmConcFor, hmRound,
                   wcVars>>

\* The summaryBadge object writeHeavyOutputs writes to status.json
\* (index.ts:122-131).
HeavySummaryBadge(phases) ==
    LET failedPhase == \E i \in 1..Len(phases) : phases[i].status = "failed"
        passed == Cardinality({i \in 1..Len(phases) : phases[i].status = "passed"})
        total  == Len(phases)
        ratio  == ToString(passed) \o "/" \o ToString(total) \o " passed"
    IN  [message |-> IF failedPhase THEN "failed (" \o ratio \o ")" ELSE ratio,
         color   |-> IF failedPhase THEN "red" ELSE "brightgreen"]

\* writeHeavyOutputs settles, having written both files (ok) or none; a
\* rejection is caught and logged; then userApi.disconnect() is called
\* (index.ts:93-136, 1049-1083).
WriteSettles(ok) ==
    /\ hmPc = "writing"
    /\ hmStatusFile' = IF ok
                       THEN <<[overall |-> hmWrites[Len(hmWrites)],
                               phases |-> hmPhases,
                               badge |-> HeavySummaryBadge(hmPhases)]>>
                       ELSE hmStatusFile
    /\ hmPc' = "disconnecting"
    /\ UNCHANGED <<hmFlow, hmSr, hmDel, hmTxInFlight, hmConcFor, hmRound, wcVars>>

\* userApi.disconnect() settles, a rejection ignored; the finally block ends
\* and the error thrown by the catch block, if any, rejects runMonitorHeavy
\* (index.ts:1044, 1082-1088).
DisconnectSettles ==
    /\ hmPc = "disconnecting"
    /\ hmPc' = IF hmFailed THEN "rejected" ELSE "returned"
    /\ UNCHANGED <<hmFlow, hmStatusFile, hmSr, hmDel, hmTxInFlight, hmConcFor,
                   hmRound, wcVars>>

\* runMonitorHeavy().catch(...): process.exit(1) (index.ts:1090-1096).
HeavyCrashHandler ==
    /\ hmPc = "rejected"
    /\ hmExit' = 1
    /\ hmPc' = "exited"
    /\ UNCHANGED <<hmPhases, hmActive, hmFailed, hmErr, hmWrites, hmStatusFile,
                   hmSr, hmDel, hmTxInFlight, hmConcFor, hmRound, wcVars>>

\* A worker of the latest withConcurrency call goes on while the process is
\* alive.
HeavyFnFulfils(w) ==
    /\ hmPc \notin {"exited", "returned"}
    /\ FnFulfils(w)
    /\ UNCHANGED hmVars

HeavyFnRejects(w, e) ==
    /\ hmPc \notin {"exited", "returned"}
    /\ FnRejects(w, e)
    /\ UNCHANGED hmVars

----------------------------------------------------------------------------
\* Specifications

MonitorIdle ==
    /\ pc = "idle"
    /\ stageIdx = 1
    /\ results = <<>>
    /\ failed = FALSE
    /\ ctx = EmptyCtx
    /\ chain = EmptyChain
    /\ txLog = <<>>
    /\ invoked = <<>>
    /\ thrown = <<>>
    /\ cleanupCalls = 0
    /\ cleanupLog = <<>>
    /\ badgeCalls = <<>>
    /\ badgeFiles = <<>>
    /\ exitCode = Unset
    /\ rejection = NoError

SanityIdle ==
    /\ sanityPc = "idle"
    /\ target = "full"
    /\ stageStatuses = [s \in {SanityStages[i] : i \in 1..Len(SanityStages)} |-> "skipped"]
    /\ locals = NoLocals
    /\ sanityChain = NoChain
    /\ created = {}
    /\ stagesRun = <<>>
    /\ cleanups = <<>>
    /\ deletions = <<>>
    /\ pending = NoError
    /\ sanityExit = Unset
    /\ statusFile = <<>>

ConcurrencyIdle ==
    /\ wcPc = "idle"
    /\ wcItems = 0
    /\ wcConcurrency = 0
    /\ wcIdx = 0
    /\ wcWorkers = <<>>
    /\ wcCurrent = <<>>
    /\ wcInFlight = {}
    /\ wcDispatched = <<>>
    /\ wcRaised = <<>>
    /\ wcOutcome = Pending

RetryIdle ==
    /\ urPc = "idle"
    /\ urOpts = [retries |-> Unset, delayMs |-> Unset, maxTotalMs |-> Unset,
                 maxDelayMs |-> Unset]
    /\ urElapsed = 0
    /\ urAttempt = 0
    /\ urError = NoError
    /\ urReAuth = "none"
    /\ urDelay = 0
    /\ urOutcome = Pending

\* The variables of runMonitorHeavy other than its position, before the run.
HeavyStart ==
    /\ hmPhases = <<>>
    /\ hmActive = "none"
    /\ hmFailed = FALSE
    /\ hmErr = NoError
    /\ hmWrites = <<>>
    /\ hmExit = Unset
    /\ hmStatusFile = <<>>
    /\ hmBatch = 1
    /\ hmI = 0
    /\ hmSubmitted = <<>>
    /\ hmAttempt = 0
    /\ hmRemaining = <<>>
    /\ hmJ = 0
    /\ hmFailedFiles = <<>>
    /\ hmTxInFlight = {}
    /\ hmConcFor = "none"
    /\ hmRound = 0

HeavyIdle == hmPc = "idle" /\ HeavyStart

\* No call of a wait primitive has been made and the cleanup tool is not run.
Idle == [pc |-> "idle"]

UtilIdle == wt = Idle /\ fa = Idle /\ fe = Idle /\ ct = Idle

CallsIdle == ufp = Idle /\ sf = Idle /\ mr = Idle /\ df = Idle

ProgramsIdle ==
    MonitorIdle /\ SanityIdle /\ ConcurrencyIdle /\ RetryIdle /\ HeavyIdle

MonitorInit ==
    /\ pc = "loop"
    /\ stageIdx = 1
    /\ results = <<>>
    /\ failed = FALSE
    /\ ctx = EmptyCtx
    /\ chain = EmptyChain
    /\ txLog = <<>>
    /\ invoked = <<>>
    /\ thrown = <<>>
    /\ cleanupCalls = 0
    /\ cleanupLog = <<>>
    /\ badgeCalls = <<>>
    /\ badgeFiles = <<>>
    /\ exitCode = Unset
    /\ rejection = NoError
    /\ SanityIdle
    /\ ConcurrencyIdle
    /\ RetryIdle
    /\ HeavyIdle
    /\ UtilIdle
    /\ CallsIdle

MonitorNext ==
    /\ \/ \E fp \in 0..MaxFailPoint, e \in EnvErrors : RunStage(fp, e)
       \/ SkipStage
       \/ LoopDone
       \/ \E r \in BOOLEAN : Cleanup(r)
       \/ \E k \in 0..(NumStages + 2) : GenerateBadges(k)
       \/ Summary
       \/ CrashHandler
    /\ UNCHANGED <<sanityVars, wcVars, urVars, hmVars, utilVars, callVars>>

MonitorSpec == MonitorInit /\ [][MonitorNext]_vars

\* A call generateBadges(results) on its own (badges.ts:36-75): results is
\* any list of at most MaxResults stage results, the i-th one of stage
\* STAGES[i].
MaxResults == 4

ResultLists ==
    UNION {[1..n -> {"passed", "failed", "skipped"}] : n \in 0..MaxResults}

BadgesInit ==
    /\ pc = "badges"
    /\ \E st \in ResultLists :
         results = [i \in 1..Len(st) |->
                      [stage |-> STAGES[i], status |-> st[i],
                       error |-> IF st[i] = "failed" THEN errorMsg(RawRejection) ELSE ""]]
    /\ stageIdx = 1
    /\ failed = FALSE
    /\ ctx = EmptyCtx
    /\ chain = EmptyChain
    /\ txLog = <<>>
    /\ invoked = <<>>
    /\ thrown = <<>>
    /\ cleanupCalls = 0
    /\ cleanupLog = <<>>
    /\ badgeCalls = <<>>
    /\ badgeFiles = <<>>
    /\ exitCode = Unset
    /\ rejection = NoError
    /\ SanityIdle
    /\ ConcurrencyIdle
    /\ RetryIdle
    /\ HeavyIdle
    /\ UtilIdle
    /\ CallsIdle

BadgesNext ==
    /\ \E k \in 0..(MaxResults + 2) : GenerateBadges(k)
    /\ UNCHANGED <<sanityVars, wcVars, urVars, hmVars, utilVars, callVars>>

BadgesSpec == BadgesInit /\ [][BadgesNext]_vars

SanityInit ==
    /\ sanityPc = "connection"
    /\ target \in SANITY_TARGETS
    /\ stageStatuses = [s \in {SanityStages[i] : i \in 1..Len(SanityStages)} |-> "skipped"]
    /\ locals = NoLocals
    /\ sanityChain = NoChain
    /\ created = {}
    /\ stagesRun = <<>>
    /\ cleanups = <<>>
    /\ deletions = <<>>
    /\ pending = NoError
    /\ sanityExit = Unset
    /\ statusFile = <<>>
    /\ MonitorIdle
    /\ ConcurrencyIdle
    /\ RetryIdle
    /\ HeavyIdle
    /\ UtilIdle
    /\ CallsIdle

SanityNext ==
    /\ \/ \E fp \in 0..MaxSanityFailPoint, e \in EnvErrors : SanityRunStage(fp, e)
       \/ \E fails \in SUBSET {"adolphus", "random", "bucket"} : StopCleanup(fails)
       \/ \E t \in BOOLEAN, e \in EnvErrors : BucketDeletion(t, e)
       \/ \E fails \in SUBSET {"adolphus", "random", "bucket"} : Catch(fails)
       \/ \E w \in BOOLEAN : Finally(w)
    /\ UNCHANGED <<monVars, wcVars, urVars, hmVars, utilVars, callVars>>

SanitySpec == SanityInit /\ [][SanityNext]_vars

\* runSanitySuite with cleanup applied a second time to the state its first
\* invocation left.
CleanupTwiceNext ==
    \/ SanityNext
    \/ /\ \E fails \in SUBSET {"adolphus", "random", "bucket"} : CleanupAgain(fails)
       /\ UNCHANGED <<monVars, wcVars, urVars, hmVars, utilVars, callVars>>

CleanupTwiceSpec == SanityInit /\ [][CleanupTwiceNext]_vars

ConcurrencyInit ==
    /\ wcPc = "called"
    /\ wcItems \in 0..MaxItems
    /\ wcConcurrency \in 0..MaxConcurrency
    /\ wcIdx = 0
    /\ wcWorkers = <<>>
    /\ wcCurrent = <<>>
    /\ wcInFlight = {}
    /\ wcDispatched = <<>>
    /\ wcRaised = <<>>
    /\ wcOutcome = Pending
    /\ MonitorIdle
    /\ SanityIdle
    /\ RetryIdle
    /\ HeavyIdle
    /\ UtilIdle
    /\ CallsIdle

ConcurrencyNext ==
    /\ \/ WithConcurrencyCall
       \/ \E w \in 1..NumWorkers(MaxConcurrency) : FnFulfils(w)
       \/ \E w \in 1..NumWorkers(MaxConcurrency), e \in EnvErrors : FnRejects(w, e)
    /\ UNCHANGED <<monVars, sanityVars, urVars, hmVars, utilVars, callVars>>

ConcurrencySpec == ConcurrencyInit /\ [][ConcurrencyNext]_vars

RetryInit ==
    /\ urPc = "called"
    /\ urOpts \in [retries : RetriesChoices, delayMs : DelayMsChoices,
                    maxTotalMs : MaxTotalMsChoices,
                    maxDelayMs : MaxDelayMsChoices]
    /\ urElapsed = 0
    /\ urAttempt = 0
    /\ urError = NoError
    /\ urReAuth = "none"
    /\ urDelay = 0
    /\ urOutcome = Pending
    /\ MonitorIdle
    /\ SanityIdle
    /\ ConcurrencyIdle
    /\ HeavyIdle
    /\ UtilIdle
    /\ CallsIdle

RetryNext ==
    /\ \/ UploadWithRetryCall
       \/ \E dt \in CallDurations : UploadFulfils(dt)
       \/ \E e \in UploadErrors, dt \in CallDurations : UploadRejects(e, dt)
       \/ \E ok \in BOOLEAN, dt \in CallDurations : ReAuthSettles(ok, dt)
       \/ \E late \in TimerLateness : SleepEnds(late)
    /\ UNCHANGED <<monVars, sanityVars, wcVars, hmVars, utilVars, callVars>>

RetrySpec == RetryInit /\ [][RetryNext]_vars

HeavyInit ==
    /\ hmPc = SetupSteps[1]
    /\ HeavyStart
    /\ MonitorIdle
    /\ SanityIdle
    /\ ConcurrencyIdle
    /\ RetryIdle
    /\ UtilIdle
    /\ CallsIdle

HeavyNext ==
    /\ \/ \E ok \in BOOLEAN, e \in EnvErrors : HeavySetup(ok, e)
       \/ \E ok \in BOOLEAN, e \in EnvErrors : InitWasm(ok, e)
       \/ \E ok \in BOOLEAN, e \in EnvErrors : BucketCreatePre(ok, e)
       \/ \E ok \in BOOLEAN, e \in EnvErrors : BucketCreateTx(ok, e)
       \/ \E ok \in BOOLEAN, e \in EnvErrors : BucketCreatePost(ok, e)
       \/ \E ok \in BOOLEAN, e \in EnvErrors : ComputeKeys(ok, e)
       \/ \E ok \in BOOLEAN, e \in EnvErrors : SrGas(ok, e)
       \/ \E ok \in BOOLEAN, e \in EnvErrors : SrTx(ok, e)
       \/ SrSpacingEnds
       \/ BulkWaitEnds
       \/ \E cleared \in BOOLEAN : ConcurrencyFulfilled(cleared)
       \/ ConcurrencyRejected
       \/ \E expired \in BOOLEAN : ReadySleepEnds(expired)
       \/ \E ok \in BOOLEAN, e \in EnvErrors : ReadyTree(ok, e)
       \/ \E ok \in BOOLEAN : DeletePre(ok)
       \/ \E ok \in BOOLEAN : DeleteTx(ok)
       \/ \E ok \in BOOLEAN : DeleteReceipt(ok)
       \/ DeleteBackoffEnds
       \/ \E ok \in BOOLEAN, e \in EnvErrors : DeleteTree(ok, e)
       \/ \E ok \in BOOLEAN, e \in EnvErrors : BucketDeletePre(ok, e)
       \/ \E ok \in BOOLEAN, e \in EnvErrors : BucketDeleteTx(ok, e)
       \/ \E ok \in BOOLEAN, e \in EnvErrors : BucketDeletePost(ok, e)
       \/ \E ok \in BOOLEAN : WriteSettles(ok)
       \/ DisconnectSettles
       \/ HeavyCrashHandler
       \/ \E w \in 1..NumWorkers(uploadConcurrency) : HeavyFnFulfils(w)
       \/ \E w \in 1..NumWorkers(uploadConcurrency), e \in EnvErrors :
             HeavyFnRejects(w, e)
    /\ UNCHANGED <<monVars, sanityVars, urVars, utilVars, callVars>>

HeavySpec == HeavyInit /\ [][HeavyNext]_vars

----------------------------------------------------------------------------
\* pollBackend, waitForOnChainData, waitForStorageRequestCleared
\* (src/src/monitor/utils/waits.ts:21-51, 95-111).  wt is the call:
\*   call     the function called and its options (Unset: absent)
\*   i        let i of the for loop
\*   checks   invocations of the check (fetchFn / query) so far
\*   last     how the latest check settled: "true" (fetchFn gave true, the
\*            validator accepted, the storage request is None), "false",
\*            "throws"
\*   elapsed  ms since the call;  longest  the longest check so far, in ms
\*   error    what the call threw

\* { retries = 40, delayMs = 3000 } (waits.ts:39)
pollBackendRetries == 40

pollBackendDelayMs == 3000

\* { retries = 24, delayMs = 5000 } (waits.ts:24)
onChainRetries == 24

onChainDelayMs == 5000

\* timeoutMs = 120_000, stepMs = 3_000 (waits.ts:98-99)
clearedTimeoutMs == 120000

clearedStepMs == 3000

\* Largest explicit retries option explored.
MaxWaitRetries == 3

\* How long a check takes to settle, in ms.
CheckDurations == {0, 700}

WaitCalls ==
    {[fn |-> f, retries |-> r, delayMs |-> d, timeoutMs |-> Unset, stepMs |-> Unset] :
        f \in {"pollBackend", "waitForOnChainData"},
        r \in {Unset} \cup (0..MaxWaitRetries), d \in {Unset, 1000}}
    \cup {[fn |-> "waitForStorageRequestCleared", retries |-> Unset,
           delayMs |-> Unset, timeoutMs |-> t, stepMs |-> Unset] :
            t \in {Unset, 0, 6000}}

\* The destructured options with their defaults.
WaitRetries(c) ==
    OrDefault(c.retries, IF c.fn = "pollBackend" THEN pollBackendRetries ELSE onChainRetries)

WaitDelayMs(c) ==
    CASE c.fn = "pollBackend" -> OrDefault(c.delayMs, pollBackendDelayMs)
      [] c.fn = "waitForOnChainData" -> OrDefault(c.delayMs, onChainDelayMs)
      [] OTHER -> OrDefault(c.stepMs, clearedStepMs)

WaitTimeoutMs(c) == OrDefault(c.timeoutMs, clearedTimeoutMs)

\* The timeout errors (waits.ts:31, 50, 107)
WaitTimeout(c) ==
    CASE c.fn = "pollBackend" ->
           Err("Timeout waiting for MSP backend ("
               \o ToString(WaitRetries(c) * WaitDelayMs(c)) \o "ms)")
      [] c.fn = "waitForOnChainData" ->
           Err("Timeout waiting for on-chain data ("
               \o ToString(WaitRetries(c) * WaitDelayMs(c)) \o "ms)")
      [] OTHER -> Err("Timeout waiting for storage request to clear")

\* Variant of AfterCheck in which pollBackend has no try/catch.
AfterCheckUncaught(fn, res) ==
    CASE res = "true" -> "return"
      [] res = "throws" -> "throw"
      [] OTHER -> "continue"

\* What the loop body does once the awaited check has settled: pollBackend
\* catches what fetchFn throws (waits.ts:42-47); waitForOnChainData and
\* waitForStorageRequestCleared await the query outside any try
\* (waits.ts:27-28, 103-105).
AfterCheck(fn, res) ==
    CASE res = "true" -> "return"
      [] res = "throws" /\ fn # "pollBackend" -> "throw"
      [] OTHER -> "continue"

\* The loop condition and, when it holds, the call of the check.
WaitLoopTop(w) ==
    IF w.call.fn # "waitForStorageRequestCleared" /\ ~(w.i < WaitRetries(w.call))
    THEN [w EXCEPT !.pc = "thrown", !.error = WaitTimeout(w.call)]
    ELSE [w EXCEPT !.pc = "checking", !.checks = @ + 1]

\* The call up to its first await.
WaitCall ==
    /\ wt.pc = "called"
    /\ wt' = WaitLoopTop(wt)

\* The check settles after dt ms; e is what it throws when it throws.
CheckSettles(res, e, dt) ==
    /\ wt.pc = "checking"
    /\ LET w == [wt EXCEPT !.last = res, !.elapsed = @ + dt,
                           !.longest = IF dt > @ THEN dt ELSE @]
           a == AfterCheck(wt.call.fn, res)
       IN  wt' = CASE a = "return" -> [w EXCEPT !.pc = "returned"]
                   [] a = "throw" -> [w EXCEPT !.pc = "thrown", !.error = e]
                   [] wt.call.fn = "waitForStorageRequestCleared"
                        /\ w.elapsed >= WaitTimeoutMs(wt.call) ->
                        [w EXCEPT !.pc = "thrown", !.error = WaitTimeout(wt.call)]
                   [] OTHER -> [w EXCEPT !.pc = "sleeping"]

\* sleep(delayMs) / sleep(stepMs) ends, the timer taken as exact: i++ and
\* the next iteration.
WaitSleepEnds ==
    /\ wt.pc = "sleeping"
    /\ wt' = WaitLoopTop([wt EXCEPT !.elapsed = @ + WaitDelayMs(wt.call),
                                    !.i = @ + 1])

WaitsInit ==
    /\ wt \in {[pc |-> "called", call |-> c, i |-> 0, checks |-> 0,
                last |-> "none", elapsed |-> 0, longest |-> 0,
                error |-> NoError] : c \in WaitCalls}
    /\ fa = Idle /\ fe = Idle /\ ct = Idle
    /\ ProgramsIdle
    /\ CallsIdle

WaitsNext ==
    /\ \/ WaitCall
       \/ \E res \in {"true", "false", "throws"}, e \in EnvErrors, dt \in CheckDurations :
            CheckSettles(res, e, dt)
       \/ WaitSleepEnds
    /\ UNCHANGED <<programVars, callVars, fa, fe, ct>>

WaitsSpec == WaitsInit /\ [][WaitsNext]_vars

----------------------------------------------------------------------------
\* waitForFinalization (src/src/monitor/utils/waits.ts:10-16) and the
\* finalizedAtLeast helper it awaits (src/src/monitor-heavy/index.ts:1165-1183).
\* fa is the call:
\*   pc      "getHeader", "waiting" (finalizedAtLeast pending), "returned",
\*           "thrown"
\*   best    number of the best header at the call;  head  number of the
\*           latest finalized header of the chain;  seen  number of the latest
\*           header given to the callback, Unset if none
\*   target  the argument of finalizedAtLeast
\*   sub     the subscription: "none", "pending" (unsubPromise pending),
\*           "active", "failed" (unsubPromise rejected), "closed"
\*   unsubs  calls of unsub();  error  what the call threw

\* Largest header number of the chain explored.
MaxHead == 4

\* await userApi.rpc.chain.getHeader() settles (waits.ts:13-15): on success
\* target is the number after it and finalizedAtLeast subscribes.
GetHeaderSettles(ok, e) ==
    /\ fa.pc = "getHeader"
    /\ fa' = IF ok
             THEN [fa EXCEPT !.pc = "waiting", !.target = fa.best + 1,
                             !.sub = "pending"]
             ELSE [fa EXCEPT !.pc = "thrown", !.error = e]

\* unsubPromise settles.  Nothing in finalizedAtLeast handles its rejection:
\* neither resolve nor reject is called.
FaSubscribeSettles(ok) ==
    /\ fa.sub = "pending"
    /\ fa' = [fa EXCEPT !.sub = IF ok THEN "active" ELSE "failed"]

\* The chain finalizes its next block.
ChainFinalizes ==
    /\ fa.pc \in {"getHeader", "waiting"}
    /\ fa.head < MaxHead
    /\ fa' = [fa EXCEPT !.head = @ + 1]

\* The subscription gives the callback its next header: the latest finalized
\* one at first, then each new one (index.ts:1168-1181).  At the target or
\* above: unsub() and resolve().
FaHeadCallback ==
    /\ fa.sub = "active"
    /\ LET n == IF fa.seen = Unset THEN fa.head ELSE fa.seen + 1
       IN  /\ n <= fa.head
           /\ fa' = IF n >= fa.target
                    THEN [fa EXCEPT !.seen = n, !.sub = "closed",
                                    !.unsubs = @ + 1, !.pc = "returned"]
                    ELSE [fa EXCEPT !.seen = n]

FinalizationInit ==
    /\ fa \in {[pc |-> "getHeader", best |-> b, head |-> h, seen |-> Unset,
                target |-> Unset, sub |-> "none", unsubs |-> 0,
                error |-> NoError] : h \in 0..(MaxHead - 1), b \in 0..(MaxHead - 1)}
    /\ fa.head <= fa.best
    /\ wt = Idle /\ fe = Idle /\ ct = Idle
    /\ ProgramsIdle
    /\ CallsIdle

FinalizationNext ==
    /\ \/ \E ok \in BOOLEAN, e \in EnvErrors : GetHeaderSettles(ok, e)
       \/ \E ok \in BOOLEAN : FaSubscribeSettles(ok)
       \/ ChainFinalizes
       \/ FaHeadCallback
    /\ UNCHANGED <<programVars, callVars, wt, fe, ct>>

\* Every pending call of the node settles and every header the chain has
\* finalized reaches the callback; the chain itself owes no progress.
FinalizationSpec ==
    /\ FinalizationInit
    /\ [][FinalizationNext]_vars
    /\ WF_fa(\E ok \in BOOLEAN, e \in EnvErrors : GetHeaderSettles(ok, e))
    /\ WF_fa(\E ok \in BOOLEAN : FaSubscribeSettles(ok))
    /\ WF_fa(FaHeadCallback)

----------------------------------------------------------------------------
\* forFinalizedEvent (src/src/monitor-heavy/index.ts:1185-1217).  fe is the
\* call:
\*   outcome   the promise returned: "pending", "resolved", "rejected"
\*   error     what it rejected with
\*   timer     "armed", "fired", "cleared"
\*   sub       the subscription: "pending", "active", "failed", "closed"
\*   blocks    headers given to the callback so far
\*   inflight  blocks whose events.at query has not settled
\*   unsubs    calls of unsub()

\* Largest number of finalized headers given to the callback.
MaxBlocks == 4

\* new Error("Timeout waiting for finalized event") (index.ts:1193)
FinalizedEventTimeout == Err("Timeout waiting for finalized event")

\* resolve / reject of a promise: the first one decides.
Settle(f, outcome, e) ==
    IF f.outcome = "pending"
    THEN [f EXCEPT !.outcome = outcome, !.error = e]
    ELSE f

\* clearTimeout(timer)
ClearTimeout(f) == IF f.timer = "armed" THEN [f EXCEPT !.timer = "cleared"] ELSE f

\* (await unsub)() (index.ts:1207, 1212)
Unsub(f) == [f EXCEPT !.unsubs = @ + 1, !.sub = "closed"]

\* await api.rpc.chain.subscribeFinalizedHeads(...) settles (index.ts:1196);
\* a rejection rejects the promise of the async executor, which nothing
\* observes.
FeSubscribeSettles(ok) ==
    /\ fe.sub = "pending"
    /\ fe' = [fe EXCEPT !.sub = IF ok THEN "active" ELSE "failed"]

\* The timer fires: reject(new Error(...)) (index.ts:1192-1195).
FeTimerFires ==
    /\ fe.timer = "armed"
    /\ fe' = Settle([fe EXCEPT !.timer = "fired"], "rejected", FinalizedEventTimeout)

\* The subscription gives the callback a header: the callback runs up to
\* its await of events.at (index.ts:1196-1201).
FeHead ==
    /\ fe.sub = "active"
    /\ fe.blocks < MaxBlocks
    /\ fe' = [fe EXCEPT !.blocks = @ + 1, !.inflight = @ \cup {fe.blocks + 1}]

\* events.at(blockHash) of block b settles: a matching event is found, none
\* is, or the query throws e (index.ts:1199-1214).
FeEventsSettle(b, res, e) ==
    /\ b \in fe.inflight
    /\ LET f == [fe EXCEPT !.inflight = @ \ {b}]
       IN  fe' = CASE res = "found" -> Settle(Unsub(ClearTimeout(f)), "resolved", NoError)
                   [] res = "throws" -> Settle(Unsub(ClearTimeout(f)), "rejected", e)
                   [] OTHER -> f

FinalizedEventInit ==
    /\ fe = [outcome |-> "pending", error |-> NoError, timer |-> "armed",
             sub |-> "pending", blocks |-> 0, inflight |-> {}, unsubs |-> 0]
    /\ wt = Idle /\ fa = Idle /\ ct = Idle
    /\ ProgramsIdle
    /\ CallsIdle

FinalizedEventNext ==
    /\ \/ \E ok \in BOOLEAN : FeSubscribeSettles(ok)
       \/ FeTimerFires
       \/ FeHead
       \/ \E b \in 1..MaxBlocks, res \in {"found", "none", "throws"}, e \in EnvErrors :
            FeEventsSettle(b, res, e)
    /\ UNCHANGED <<programVars, callVars, wt, fa, ct>>

FinalizedEventSpec == FinalizedEventInit /\ [][FinalizedEventNext]_vars

----------------------------------------------------------------------------
\* The cleanup tool: runCleanup (src/unnamed/part_002:119-323).  ct is the run:
\*   pc        "setup", "getFiles", "deleteFile", "deleteBucket", "returned",
\*             "rejected", "exited"
\*   args      the parsed flags: help, mode, execute, withFiles
\*   nBuckets  buckets.length after the filters;  b  the bucket of the loop
\*   nFiles    files.length of bucket b;  f  the file of the loop
\*   txs       on-chain transactions submitted, in order
\*   dry       DRY-RUN lines logged
\*   error     what runCleanup rejected with

\* Largest number of matched buckets and of files in a bucket explored.
MaxBuckets == 2

MaxFilesPerBucket == 2

\* new Error("NotEnoughBalance: fund the account and retry") (part_002:272, 312)
NotEnoughBalance == Err("NotEnoughBalance: fund the account and retry")

\* Variant of SubmitUnlessDryRun without the `if (!args.execute)` guard.
SubmitAlways(c, tx) == [c EXCEPT !.txs = Append(@, tx)]

\* The guard of deleteFileOnChain and deleteBucketOnChain (part_002:226-233,
\* 241-245): without --execute log DRY-RUN and return, otherwise submit tx.
SubmitUnlessDryRun(c, tx) ==
    IF ~c.args.execute
    THEN [c EXCEPT !.dry = @ + 1]
    ELSE [c EXCEPT !.txs = Append(@, tx)]

\* The top of an iteration of `for (const b of buckets)` in the three modes
\* (part_002:196-198, 253-255, 281-286, 304-306).
BucketStart(c) ==
    [c EXCEPT !.f = 0, !.nFiles = 0,
              !.pc = IF c.args.mode = "delete-buckets" /\ ~c.args.withFiles
                     THEN "deleteBucket" ELSE "getFiles"]

\* The end of an iteration: the next bucket, or return.
NextBucket(c) ==
    IF c.b < c.nBuckets
    THEN BucketStart([c EXCEPT !.b = @ + 1])
    ELSE [c EXCEPT !.pc = "returned"]

\* The end of `for (const f of files)`.
AfterFiles(c) ==
    IF c.args.mode = "delete-buckets"
    THEN [c EXCEPT !.pc = "deleteBucket"]
    ELSE NextBucket(c)

\* The end of an iteration of `for (const f of files)`.
NextFile(c) ==
    IF c.f < c.nFiles THEN [c EXCEPT !.f = @ + 1] ELSE AfterFiles(c)

\* parseArgs up to the listing of the buckets (part_002:120-189): a failure
\* of the configuration, of MspClient.connect, SIWE or listBuckets rejects
\* the run.
CtSetup(ok, e) ==
    /\ ct.pc = "setup"
    /\ ct' = CASE ct.args.help -> [ct EXCEPT !.pc = "returned"]
               [] ~ok -> [ct EXCEPT !.pc = "rejected", !.error = e]
               [] ct.nBuckets = 0 -> [ct EXCEPT !.pc = "returned"]
               [] OTHER -> BucketStart([ct EXCEPT !.b = 1])

\* getFiles of bucket b settles, with k files after --limit-files
\* (part_002:198-206, 255-261, 286-292).
CtGetFiles(ok, e, k) ==
    /\ ct.pc = "getFiles"
    /\ ct' = CASE ~ok -> [ct EXCEPT !.pc = "rejected", !.error = e]
               [] ct.args.mode = "list" -> NextBucket(ct)
               [] k = 0 -> AfterFiles(ct)
               [] OTHER -> [ct EXCEPT !.nFiles = k, !.f = 1, !.pc = "deleteFile"]

\* deleteFileOnChain for file f settles (part_002:210-238) and the catch of
\* its caller runs (part_002:264-275, 293-301).  res: "ok", "infoFails"
\* (getFileInfo throws), "txFails" (no tx hash, a failed receipt),
\* "notEnoughBalance" (the submission throws that message).
CtDeleteFile(res) ==
    /\ ct.pc = "deleteFile"
    /\ res \in {"txFails", "notEnoughBalance"} => ct.args.execute
    /\ LET c == IF res = "infoFails" THEN ct
                ELSE SubmitUnlessDryRun(ct, <<"requestDeleteFile", ct.b, ct.f>>)
       IN  ct' = IF res = "notEnoughBalance" /\ ct.args.mode = "delete-files"
                 THEN [c EXCEPT !.pc = "rejected", !.error = NotEnoughBalance]
                 ELSE NextFile(c)

\* deleteBucketOnChain for bucket b settles (part_002:240-250) and the
\* catch of its caller runs (part_002:304-314).
CtDeleteBucket(res) ==
    /\ ct.pc = "deleteBucket"
    /\ res # "ok" => ct.args.execute
    /\ LET c == SubmitUnlessDryRun(ct, <<"deleteBucket", ct.b, 0>>)
       IN  ct' = IF res = "notEnoughBalance"
                 THEN [c EXCEPT !.pc = "rejected", !.error = NotEnoughBalance]
                 ELSE NextBucket(c)

\* runCleanup().catch(...): process.exit(1) (part_002:318-323).
CtCrashHandler ==
    /\ ct.pc = "rejected"
    /\ ct' = [ct EXCEPT !.pc = "exited"]

CleanupToolInit ==
    /\ ct \in {[pc |-> "setup", args |-> a, nBuckets |-> n, b |-> 0,
                nFiles |-> 0, f |-> 0, txs |-> <<>>, dry |-> 0,
                error |-> NoError] :
                 a \in [help : BOOLEAN,
                        mode : {"list", "delete-files", "delete-buckets"},
                        execute : BOOLEAN, withFiles : BOOLEAN],
                 n \in 0..MaxBuckets}
    /\ wt = Idle /\ fa = Idle /\ fe = Idle
    /\ ProgramsIdle
    /\ CallsIdle

CleanupToolNext ==
    /\ \/ \E ok \in BOOLEAN, e \in EnvErrors : CtSetup(ok, e)
       \/ \E ok \in BOOLEAN, e \in EnvErrors, k \in 0..MaxFilesPerBucket :
            CtGetFiles(ok, e, k)
       \/ \E res \in {"ok", "infoFails", "txFails", "notEnoughBalance"} :
            CtDeleteFile(res)
       \/ \E res \in {"ok", "txFails", "notEnoughBalance"} : CtDeleteBucket(res)
       \/ CtCrashHandler
    /\ UNCHANGED <<programVars, callVars, wt, fa, fe>>

CleanupToolSpec == CleanupToolInit /\ [][CleanupToolNext]_vars

----------------------------------------------------------------------------
\* uploadFilesParallel (src/src/monitor-heavy/index.ts:699-793): its workers
\* are run by withConcurrency (wcVars) and each invocation of fn spends its
\* time inside uploadWithRetry (index.ts:138-217).  ufp is the state of the
\* enclosing closures the workers share:
\*   pc             "called", "awaiting", "returned", "thrown"
\*   status         const status, by item index: "none", "uploading", "uploaded"
\*   uploadedCount  let uploadedCount (index.ts:711)
\*   currentSession let currentSession (index.ts:477): 0 is the session of the
\*                  initial reAuth(), w the one stored by worker w's reAuth()
\*   at             per worker, the await its invocation of fn is suspended at
\*   writers        per shared variable, the workers that assigned to it
\*   overlapping    the shared variables a worker assigned to while another
\*                  worker that had assigned to it was still running
\* The give-up test of uploadWithRetry (attempt count and elapsed time, see
\* retryWindowOver) is the input `over` of the steps that evaluate it.  The
\* setInterval callback (index.ts:713-723) only reads.

MaxUploadFiles == 4

SharedVariables == {"currentSession", "uploadedCount"}

UploadWorkers == 1..NumWorkers(uploadConcurrency)

\* new Error(`upload failed: ${res.status}`) (index.ts:776)
UploadFailedStatus == Err("upload failed: status")

\* The workers other than w whose invocation of fn has not settled.
OthersInFlight(w) ==
    {v \in DOMAIN wcWorkers : v # w /\ wcWorkers[v] = "running"}

\* Worker w assigns to the shared variable var.
WriteBy(u, var, w) ==
    [u EXCEPT !.writers[var] = @ \cup {w},
              !.overlapping =
                  IF OthersInFlight(w) \cap u.writers[var] # {}
                  THEN @ \cup {var} ELSE @]

\* The start of fn for the item worker w has just taken, up to its first
\* await: status.set(fkKey, "uploading") and the sleep (index.ts:728-749).
FnStart(u, w) ==
    IF wcWorkers'[w] = "running"
    THEN [u EXCEPT !.status[wcCurrent'[w]] = "uploading", !.at[w] = "sleep"]
    ELSE [u EXCEPT !.at[w] = "none"]

\* The call up to `await withConcurrency(...)` (index.ts:703-727).
UploadFilesParallelCall ==
    /\ ufp.pc = "called"
    /\ wcPc = "called"
    /\ StartWorkers(wcItems, wcConcurrency)
    /\ ufp' = [ufp EXCEPT
                 !.pc = "awaiting",
                 !.status = [i \in 0..(wcItems - 1) |->
                               IF i \in wcInFlight' THEN "uploading" ELSE "none"],
                 !.at = [w \in DOMAIN wcWorkers' |->
                           IF wcWorkers'[w] = "running" THEN "sleep" ELSE "none"]]
    /\ UNCHANGED <<wcItems, wcConcurrency, wcRaised>>

\* `await withConcurrency(...)` settles: finally { clearInterval(interval) }
\* and the call returns or throws (index.ts:789-792).
UploadFilesParallelSettles ==
    /\ ufp.pc = "awaiting"
    /\ wcOutcome.state # "pending"
    /\ ufp' = [ufp EXCEPT !.pc = IF wcOutcome.state = "fulfilled"
                                 THEN "returned" ELSE "thrown"]
    /\ UNCHANGED wcVars

\* The sleep and fm.getFileBlob() of worker w are over: uploadWithRetry calls
\* uploadFile (index.ts:750-772, 161-168).
FnSleepEnds(w) ==
    /\ w \in DOMAIN ufp.at
    /\ ufp.at[w] = "sleep"
    /\ ufp' = [ufp EXCEPT !.at[w] = "upload"]
    /\ UNCHANGED wcVars

\* uploadFile of worker w fulfils (index.ts:168, 775-786): on a good response
\* status.set(fkKey, "uploaded"), uploadedCount += 1 and fn returns, so the
\* worker takes its next item; otherwise fn throws.
FnUploadFulfils(w, ok) ==
    /\ w \in DOMAIN ufp.at
    /\ ufp.at[w] = "upload"
    /\ IF ok
       THEN /\ FnFulfils(w)
            /\ ufp' = FnStart(
                 WriteBy([ufp EXCEPT !.status[wcCurrent[w]] = "uploaded",
                                     !.uploadedCount = @ + 1],
                         "uploadedCount", w), w)
       ELSE /\ FnRejects(w, UploadFailedStatus)
            /\ ufp' = [ufp EXCEPT !.at[w] = "none"]

\* The catch block of uploadWithRetry behind its reAuth part, in worker w
\* with the caught error e (index.ts:200-214).
FnAfterReAuth(u, w, e, over) ==
    IF shouldRetry(errorMsg(e)) /\ ~over
    THEN /\ ufp' = [u EXCEPT !.at[w] = "backoff"]
         /\ UNCHANGED wcVars
    ELSE /\ FnRejects(w, e)
         /\ ufp' = [u EXCEPT !.at[w] = "none"]

\* uploadFile of worker w rejects with e (index.ts:175-198).
FnUploadRejects(w, e, over) ==
    /\ w \in DOMAIN ufp.at
    /\ ufp.at[w] = "upload"
    /\ IF Includes(errorMsg(e), "HTTP 403")
       THEN /\ ufp' = [ufp EXCEPT !.at[w] = "reAuth"]
            /\ UNCHANGED wcVars
       ELSE FnAfterReAuth(ufp, w, e, over)

\* The reAuth() worker w awaits settles (index.ts:483-491, 192-198): when
\* SIWE fulfilled (ok), reAuth assigns currentSession.
FnReAuthSettles(w, ok, over) ==
    /\ w \in DOMAIN ufp.at
    /\ ufp.at[w] = "reAuth"
    /\ FnAfterReAuth(IF ok
                     THEN WriteBy([ufp EXCEPT !.currentSession = w],
                                  "currentSession", w)
                     ELSE ufp,
                     w, Http403, over)

\* sleep(nextDelay) of worker w ends: the top of the while loop
\* (index.ts:161-168, 210-211).
FnBackoffEnds(w, over) ==
    /\ w \in DOMAIN ufp.at
    /\ ufp.at[w] = "backoff"
    /\ IF over
       THEN /\ FnRejects(w, WindowElapsed)
            /\ ufp' = [ufp EXCEPT !.at[w] = "none"]
       ELSE /\ ufp' = [ufp EXCEPT !.at[w] = "upload"]
            /\ UNCHANGED wcVars

UploadParallelInit ==
    /\ ufp = [pc |-> "called", status |-> <<>>, uploadedCount |-> 0,
              currentSession |-> 0, at |-> <<>>,
              writers |-> [v \in SharedVariables |-> {}], overlapping |-> {}]
    /\ wcPc = "called"
    /\ wcItems \in 1..MaxUploadFiles
    /\ wcConcurrency = uploadConcurrency
    /\ wcIdx = 0
    /\ wcWorkers = <<>>
    /\ wcCurrent = <<>>
    /\ wcInFlight = {}
    /\ wcDispatched = <<>>
    /\ wcRaised = <<>>
    /\ wcOutcome = Pending
    /\ MonitorIdle
    /\ SanityIdle
    /\ RetryIdle
    /\ HeavyIdle
    /\ UtilIdle
    /\ sf = Idle /\ mr = Idle /\ df = Idle

UploadParallelNext ==
    /\ \/ UploadFilesParallelCall
       \/ UploadFilesParallelSettles
       \/ \E w \in UploadWorkers : FnSleepEnds(w)
       \/ \E w \in UploadWorkers, ok \in BOOLEAN : FnUploadFulfils(w, ok)
       \/ \E w \in UploadWorkers, e \in UploadErrors, over \in BOOLEAN :
            FnUploadRejects(w, e, over)
       \/ \E w \in UploadWorkers, ok \in BOOLEAN, over \in BOOLEAN :
            FnReAuthSettles(w, ok, over)
       \/ \E w \in UploadWorkers, over \in BOOLEAN : FnBackoffEnds(w, over)
    /\ UNCHANGED <<monVars, sanityVars, urVars, hmVars, utilVars, sf, mr, df>>

UploadParallelSpec == UploadParallelInit /\ [][UploadParallelNext]_vars

----------------------------------------------------------------------------
\* waitForStorageRequestFulfilled (src/src/monitor/utils/waits.ts:56-90) over
\* forFinalizedEvent (src/src/monitor-heavy/index.ts:1185-1217), whose promise
\* is modelled step by step in FinalizedEventSpec; here a call of
\* forFinalizedEvent is one subscription that is taken to succeed.  sf is the
\* call of waitForStorageRequestFulfilled:
\*   pc       "subscribing" (forFinalizedEvent awaits subscribeFinalizedHeads),
\*            "listening" (the subscription is active), "returned", "thrown"
\*   fileKey  the fileKey argument
\*   blocks   the blocks finalized since the call, in order: of each, the file
\*            keys of its StorageRequestFulfilled events in event order
\*   hash     the block returned (its position in blocks), 0 if none
\*   error    what the call threw

\* Largest number of finalized blocks and of events in a block explored.
MaxSfBlocks == 3

MaxSfEvents == 2

\* File keys as the chain prints them and as the caller passes them.
EmittedKeys == {"0xAB", "0xab", "0xcd"}

FileKeyArgs == {"0xAB", "0xab"}

\* String.prototype.toLowerCase on the keys above
toLowerCase(k) == IF k = "0xAB" THEN "0xab" ELSE k

BlockContents == UNION {[1..n -> EmittedKeys] : n \in 0..MaxSfEvents}

\* new Error("Timeout waiting for StorageRequestFulfilled") (waits.ts:65)
SfTimeout == Err("Timeout waiting for StorageRequestFulfilled")

\* eventsAt.find((e) => e.event.section === module && e.event.method === method)
\* (index.ts:1202-1204): the first such event of the block, "none" without one.
Find(evs) == IF evs = <<>> THEN "none" ELSE evs[1]

\* The subscription callback for block b (index.ts:1197-1214) and, when it
\* resolves, the rest of the loop body and the next loop top of
\* waitForStorageRequestFulfilled (waits.ts:62-88).  res: events.at fulfils
\* ("ok") or throws e; remaining: deadline - Date.now() > 0 at the loop top.
SfOnHead(s, b, res, e, remaining) ==
    LET found == Find(s.blocks[b])
    IN  IF res = "throws" THEN [s EXCEPT !.pc = "thrown", !.error = e]
        ELSE IF found = "none" THEN [s EXCEPT !.pc = "listening"]
        ELSE IF toLowerCase(found) = toLowerCase(s.fileKey)
             THEN [s EXCEPT !.pc = "returned", !.hash = b]
        ELSE IF remaining THEN [s EXCEPT !.pc = "subscribing"]
        ELSE [s EXCEPT !.pc = "thrown", !.error = SfTimeout]

\* subscribeFinalizedHeads fulfils (index.ts:1196): the subscription is
\* active and, when first, hands the callback the latest finalized head.
SfSubscribeSettles(first, res, e, remaining) ==
    /\ sf.pc = "subscribing"
    /\ sf' = IF first /\ sf.blocks # <<>>
             THEN SfOnHead(sf, Len(sf.blocks), res, e, remaining)
             ELSE [sf EXCEPT !.pc = "listening"]

\* The chain finalizes a block with the events evs before the deadline; an
\* active subscription hands it to the callback.
SfBlockFinalizes(evs, res, e, remaining) ==
    /\ sf.pc \in {"subscribing", "listening"}
    /\ Len(sf.blocks) < MaxSfBlocks
    /\ LET s == [sf EXCEPT !.blocks = Append(@, evs)]
       IN  sf' = IF sf.pc = "listening"
                 THEN SfOnHead(s, Len(s.blocks), res, e, remaining)
                 ELSE s

\* The deadline passes: the timer of forFinalizedEvent, set to the remaining
\* time, rejects its promise (index.ts:1192-1195, waits.ts:67-71).
SfTimerFires ==
    /\ sf.pc \in {"subscribing", "listening"}
    /\ sf' = [sf EXCEPT !.pc = "thrown", !.error = FinalizedEventTimeout]

StorageRequestFulfilledInit ==
    /\ sf \in {[pc |-> "subscribing", fileKey |-> k, blocks |-> <<>>,
                hash |-> 0, error |-> NoError] : k \in FileKeyArgs}
    /\ ufp = Idle /\ mr = Idle /\ df = Idle
    /\ UtilIdle
    /\ ProgramsIdle

StorageRequestFulfilledNext ==
    /\ \/ \E first \in BOOLEAN, res \in {"ok", "throws"}, e \in EnvErrors,
            remaining \in BOOLEAN :
            SfSubscribeSettles(first, res, e, remaining)
       \/ \E evs \in BlockContents, res \in {"ok", "throws"}, e \in EnvErrors,
            remaining \in BOOLEAN :
            SfBlockFinalizes(evs, res, e, remaining)
       \/ SfTimerFires
    /\ UNCHANGED <<programVars, utilVars, ufp, mr, df>>

StorageRequestFulfilledSpec ==
    StorageRequestFulfilledInit /\ [][StorageRequestFulfilledNext]_vars

----------------------------------------------------------------------------
\* waitForMspFileReadyWithSnapshot (src/src/monitor/utils/waits.ts:140-207).
\* mr is the call:
\*   pc          "called", "polling" (awaiting getFiles), "sleeping",
\*               "returned", "thrown"
\*   timeoutMs   the timeoutMs option (Unset: absent)
\*   attempt     let attempt
\*   elapsed     Date.now() - (deadline - timeoutMs), in ms
\*   lastStatus  let lastStatus, "undefined" before the first answer
\*   polls       calls of mspClient.buckets.getFiles made
\*   caught      what the catch block of the loop body caught last
\*   error       what the call threw

\* timeoutMs = 660_000 (waits.ts:145)
DefaultReadyTimeoutMs == 660000

\* intervalMs = 30_000 (waits.ts:146)
DefaultReadyIntervalMs == 30000

ReadyTimeoutChoices == {Unset, 60000}

\* How long a getFiles call takes to settle, in ms.
GetFilesDurations == {200, 31000}

\* findFileStatus(resp.files, fileKey) ?? "missing" (waits.ts:164)
MspStatuses == {"ready", "inProgress", "expired", "missing"}

\* formatMspStatus (waits.ts:130-135)
formatMspStatus(status) ==
    CASE status = "ready" -> "Ready"
      [] status \in {"in_progress", "inProgress"} -> "InProgress"
      [] status = "missing" -> "Missing"
      [] OTHER -> status

\* new Error(`MSP file status ${formatMspStatus(status)} (aborting)`)
\* (waits.ts:187-191)
MspAborting(status) ==
    Err("MSP file status " \o formatMspStatus(status) \o " (aborting)")

\* new Error("Timeout waiting for MSP file to be ready") (waits.ts:206)
MspReadyTimeout == Err("Timeout waiting for MSP file to be ready")

\* The top of the while loop (waits.ts:156-162): count the attempt, leave the
\* loop and throw when the deadline has passed, else call getFiles.
MrLoopTop(m) ==
    LET m1 == [m EXCEPT !.attempt = @ + 1]
    IN  IF OrDefault(m.timeoutMs, DefaultReadyTimeoutMs) - m.elapsed <= 0
        THEN [m1 EXCEPT !.pc = "thrown", !.error = MspReadyTimeout]
        ELSE [m1 EXCEPT !.pc = "polling", !.polls = @ + 1]

\* The call up to its first await (waits.ts:152-163).
MrCall ==
    /\ mr.pc = "called"
    /\ mr' = MrLoopTop(mr)

\* The catch block of the loop body, which ignores what it caught, and the
\* sleep behind it (waits.ts:194-198).
MrCatch(m, e) == [m EXCEPT !.caught = e, !.pc = "sleeping"]

\* getFiles settles after dt ms (waits.ts:163-193): it rejects with e, or
\* the listing gives the file the status res.
MrGetFilesSettles(res, e, dt) ==
    /\ mr.pc = "polling"
    /\ LET m == [mr EXCEPT !.elapsed = @ + dt]
           s == [m EXCEPT !.lastStatus = res]
       IN  mr' = IF res = "rejects" THEN MrCatch(m, e)
                 ELSE IF res \in {"expired", "missing"}
                      THEN MrCatch(s, MspAborting(res))
                 ELSE IF res = "ready" THEN [s EXCEPT !.pc = "returned"]
                 ELSE [s EXCEPT !.pc = "sleeping"]

\* sleep(intervalMs) ends (waits.ts:198).
MrSleepEnds ==
    /\ mr.pc = "sleeping"
    /\ mr' = MrLoopTop([mr EXCEPT !.elapsed = @ + DefaultReadyIntervalMs])

MspFileReadyInit ==
    /\ mr \in {[pc |-> "called", timeoutMs |-> t, attempt |-> 0, elapsed |-> 0,
                lastStatus |-> "undefined", polls |-> 0, caught |-> NoError,
                error |-> NoError] : t \in ReadyTimeoutChoices}
    /\ ufp = Idle /\ sf = Idle /\ df = Idle
    /\ UtilIdle
    /\ ProgramsIdle

MspFileReadyNext ==
    /\ \/ MrCall
       \/ \E res \in MspStatuses \cup {"rejects"}, e \in EnvErrors,
            dt \in GetFilesDurations :
            MrGetFilesSettles(res, e, dt)
       \/ MrSleepEnds
    /\ UNCHANGED <<programVars, utilVars, ufp, sf, df>>

MspFileReadySpec == MspFileReadyInit /\ [][MspFileReadyNext]_vars

----------------------------------------------------------------------------
\* deleteFilesWithRetry (src/src/monitor-heavy/index.ts:859-948) on its own,
\* with the record of what it did; its withConcurrency call runs on wcVars.
\* df is the call:
\*   pc         "deleting" (inside the try block for remaining[j]), "backoff",
\*              "cleared" (awaiting withConcurrency), "tree" (awaiting
\*              waitUntilFilesAbsentViaTree), "returned", "thrown"
\*   files      the files argument, numbered 1..n
\*   attempt    let attempt;  remaining  let remaining;  j  the position of
\*              `for (const f of remaining)`;  failed  const failed
\*   rounds     per deletion round so far: the files whose deletion it
\*              attempted and those it pushed to `failed`, both in order
\*   sleeps     the delays of the backoff sleeps that ended, in order
\*   succeeded  the files whose receipt had status "success", with the round
\*   cleared    the files whose waitForStorageRequestCleared returned
\*   polls      listings fetched by waitUntilFilesAbsentViaTree
\*   listing    <<the files of the batch in the latest listing>>, <<>> before it
\*   error      what the call threw

\* Largest files.length explored, and the number of polls explored in place
\* of HEAVY_CONFIG.bucketReadyPoll.retries (index.ts:263).
MaxDeleteFiles == 2

MaxTreePolls == 2

\* Variant of `remaining = failed` that keeps every file for the next round.
NextRemainingAll(remaining, failedNow) == remaining

\* remaining = failed (index.ts:922)
NextRemaining(remaining, failedNow) == failedNow

\* Variant of the absence test satisfied by one absent file.
SomeAbsent(files, listed) ==
    \E i \in 1..Len(files) : files[i] \notin listed

\* fileKeys.every((fk) => !map.has(fk.toLowerCase())) (index.ts:435)
EveryAbsent(files, listed) ==
    \A i \in 1..Len(files) : files[i] \notin listed

\* new Error("Timeout waiting for storage request to clear") (waits.ts:107)
ClearedTimeout == Err("Timeout waiting for storage request to clear")

\* pollBackend's error with bucketReadyPoll = { retries: 220, delayMs: 3_000 }
\* (waits.ts:50, index.ts:263)
TreeTimeout == Err("Timeout waiting for MSP backend (660000ms)")

\* The start of the iteration for remaining[j] (index.ts:882-889).
DfBeginFile(d, j) ==
    [d EXCEPT !.pc = "deleting", !.j = j,
              !.rounds[Len(d.rounds)].attempted = Append(@, d.remaining[j])]

\* The start of a round of the for loop over attempt (index.ts:872-881).
DfBeginRound(d) ==
    DfBeginFile([d EXCEPT !.failed = <<>>,
                          !.rounds = Append(@, [attempted |-> <<>>,
                                                failed |-> <<>>])], 1)

\* The call of withConcurrency behind the loop (index.ts:933-945).
DfStartWaits ==
    /\ wcItems' = Len(df.files)
    /\ wcConcurrency' = uploadConcurrency
    /\ wcRaised' = <<>>
    /\ StartWorkers(Len(df.files), uploadConcurrency)

\* The try block for remaining[j] settles (index.ts:883-931): the receipt
\* had status "success" (ok), or one of its awaits threw and the catch block
\* pushed the file to `failed`; then the next file, or `remaining = failed`
\* and the break or the backoff sleep.
DfFileSettles(ok) ==
    /\ df.pc = "deleting"
    /\ LET f == df.remaining[df.j]
           failedNow == IF ok THEN df.failed ELSE Append(df.failed, f)
           d == [df EXCEPT
                   !.failed = failedNow,
                   !.rounds[Len(df.rounds)].failed = failedNow,
                   !.succeeded = IF ok
                                 THEN @ \cup {[file |-> f, round |-> df.attempt]}
                                 ELSE @]
           next == NextRemaining(df.remaining, failedNow)
       IN  IF df.j < Len(df.remaining)
           THEN /\ df' = DfBeginFile(d, df.j + 1)
                /\ UNCHANGED wcVars
           ELSE IF next = <<>>
           THEN /\ df' = [d EXCEPT !.remaining = next, !.pc = "cleared"]
                /\ DfStartWaits
           ELSE /\ df' = [d EXCEPT !.remaining = next, !.pc = "backoff"]
                /\ UNCHANGED wcVars

\* sleep(deleteRetryDelaysMs[attempt - 1]) ends (index.ts:925-930): attempt++
\* and the next round, or past the last one the withConcurrency call.
DfBackoffEnds ==
    /\ df.pc = "backoff"
    /\ LET d == [df EXCEPT !.sleeps = Append(@, deleteRetryDelaysMs[df.attempt]),
                           !.attempt = @ + 1]
       IN  IF d.attempt <= Len(deleteRetryDelaysMs)
           THEN /\ df' = DfBeginRound(d)
                /\ UNCHANGED wcVars
           ELSE /\ df' = [d EXCEPT !.pc = "cleared"]
                /\ DfStartWaits

\* waitForStorageRequestCleared of worker w returns: the storage request of
\* its file was found cleared (waits.ts:102-105, index.ts:937-944).
DfClearedFulfils(w) ==
    /\ df.pc \in {"cleared", "thrown"}
    /\ w \in DOMAIN wcCurrent
    /\ FnFulfils(w)
    /\ df' = [df EXCEPT !.cleared = @ \cup {df.files[wcCurrent[w] + 1]}]

\* waitForStorageRequestCleared of worker w throws its timeout or what the
\* query rejected with (waits.ts:103-108).
DfClearedRejects(w, e) ==
    /\ df.pc \in {"cleared", "thrown"}
    /\ FnRejects(w, e)
    /\ UNCHANGED df

\* `await withConcurrency(...)` settles (index.ts:933-947): a rejection ends
\* the call, otherwise waitUntilFilesAbsentViaTree fetches its first listing.
DfClearedSettles ==
    /\ df.pc = "cleared"
    /\ wcOutcome.state # "pending"
    /\ df' = IF wcOutcome.state = "fulfilled"
             THEN [df EXCEPT !.pc = "tree"]
             ELSE [df EXCEPT !.pc = "thrown", !.error = wcOutcome.error]
    /\ UNCHANGED wcVars

\* getFiles of waitUntilFilesAbsentViaTree settles (index.ts:433-436,
\* waits.ts:41-50): it rejects, which pollBackend ignores, or lists the files
\* `listed` of the batch; unless every file is absent pollBackend sleeps and
\* polls again, until its retries are used up.
DfTreePoll(ok, listed) ==
    /\ df.pc = "tree"
    /\ UNCHANGED wcVars
    /\ LET d == [df EXCEPT !.polls = @ + 1,
                           !.listing =
                               IF ok
                               THEN <<{f \in listed :
                                         \E i \in 1..Len(df.files) : df.files[i] = f}>>
                               ELSE @]
       IN  df' = IF ok /\ EveryAbsent(df.files, listed)
                 THEN [d EXCEPT !.pc = "returned"]
                 ELSE IF d.polls >= MaxTreePolls
                      THEN [d EXCEPT !.pc = "thrown", !.error = TreeTimeout]
                      ELSE d

DeleteRetryInit ==
    /\ \E n \in 1..MaxDeleteFiles :
         df = DfBeginRound([pc |-> "deleting", files |-> [i \in 1..n |-> i],
                            attempt |-> 1, remaining |-> [i \in 1..n |-> i],
                            j |-> 1, failed |-> <<>>, rounds |-> <<>>,
                            sleeps |-> <<>>, succeeded |-> {}, cleared |-> {},
                            polls |-> 0, listing |-> <<>>, error |-> NoError])
    /\ ufp = Idle /\ sf = Idle /\ mr = Idle
    /\ UtilIdle
    /\ ProgramsIdle

DeleteRetryNext ==
    /\ \/ \E ok \in BOOLEAN : DfFileSettles(ok)
       \/ DfBackoffEnds
       \/ \E w \in UploadWorkers : DfClearedFulfils(w)
       \/ \E w \in UploadWorkers, e \in {ClearedTimeout, RawRejection} :
            DfClearedRejects(w, e)
       \/ DfClearedSettles
       \/ \E ok \in BOOLEAN, listed \in SUBSET (1..MaxDeleteFiles) :
            DfTreePoll(ok, listed)
    /\ UNCHANGED <<monVars, sanityVars, urVars, hmVars, utilVars, ufp, sf, mr>>

DeleteRetrySpec == DeleteRetryInit /\ [][DeleteRetryNext]_vars

----------------------------------------------------------------------------
\* The orchestrator of src/unnamed/part_010: runStage returns nothing and
\* runMonitor keeps no failed flag while the loop runs.

\* `ctx = await initializeContext()` (part_010:94): getNetworkConfig and
\* getPrivateKey throw on a bad environment (context.ts:17-18); the catch
\* sets the exit code and, ctx being undefined, the finally block skips
\* cleanup (part_010:100-107).
OrchInitializeContext(ok) ==
    /\ pc = "init"
    /\ pc' = IF ok THEN "loop" ELSE "badges"
    /\ exitCode' = IF ok THEN exitCode ELSE 1
    /\ UNCHANGED <<stageIdx, results, failed, ctx, chain, txLog, invoked, thrown,
                   cleanupCalls, cleanupLog, badgeCalls, badgeFiles, rejection>>

\* Largest number of collaborator calls that reject in one run.
MaxCollaboratorFaults == 2

\* The stage functions a rejecting collaborator call has made throw so far
\* (a guard on the context throws an Error of its own instead).
CollaboratorFaults ==
    Cardinality({i \in 1..Len(thrown) : thrown[i] \in EnvErrors})

\* One iteration of `for (const stage of STAGES) await runStage(...)`
\* (part_010:97-99, 31-62): the stage function is invoked whatever the
\* earlier stages did; its error is caught and recorded, never rethrown.
OrchRunStage(fp, e) ==
    /\ pc = "loop"
    /\ stageIdx <= NumStages
    /\ fp # 0 => CollaboratorFaults < MaxCollaboratorFaults
    /\ LET name == STAGES[stageIdx]
           out  == StageFn(name, ctx, chain, fp, e)
       IN  /\ fp \in 0..FailPoints(name)
           /\ invoked' = Append(invoked, name)
           /\ thrown' = Append(thrown, out.error)
           /\ ctx' = out.ctx
           /\ chain' = out.chain
           /\ txLog' = txLog \o out.tx
           /\ results' = Append(results, StageResult(name, out))
    /\ stageIdx' = stageIdx + 1
    /\ UNCHANGED <<pc, failed, cleanupCalls, cleanupLog, badgeCalls, badgeFiles,
                   exitCode, rejection>>

\* `try { await generateBadges(results, badgesDir) } catch { log }`
\* (part_010:110-115): a rejection is caught and the summary follows.
OrchGenerateBadges(k) ==
    /\ pc = "badges"
    /\ k \in 0..(Len(results) + 2)
    /\ badgeCalls' = Append(badgeCalls, results)
    /\ badgeFiles' = BadgesWritten(results, k)
    /\ pc' = "summary"
    /\ UNCHANGED <<stageIdx, results, failed, ctx, chain, txLog, invoked, thrown,
                   cleanupCalls, cleanupLog, exitCode, rejection>>

\* `const failed = results.some((r) => r.status === "failed");
\*  if (failed) process.exitCode = 1` (part_010:137-145)
OrchSummary ==
    /\ pc = "summary"
    /\ failed' = (CountStatus(results, "failed") > 0)
    /\ exitCode' = IF failed' THEN 1 ELSE exitCode
    /\ pc' = "done"
    /\ UNCHANGED <<stageIdx, results, ctx, chain, txLog, invoked, thrown,
                   cleanupCalls, cleanupLog, badgeCalls, badgeFiles, rejection>>

OrchestratorInit ==
    /\ pc = "init"
    /\ stageIdx = 1
    /\ results = <<>>
    /\ failed = FALSE
    /\ ctx = EmptyCtx
    /\ chain = EmptyChain
    /\ txLog = <<>>
    /\ invoked = <<>>
    /\ thrown = <<>>
    /\ cleanupCalls = 0
    /\ cleanupLog = <<>>
    /\ badgeCalls = <<>>
    /\ badgeFiles = <<>>
    /\ exitCode = Unset
    /\ rejection = NoError
    /\ SanityIdle
    /\ ConcurrencyIdle
    /\ RetryIdle
    /\ HeavyIdle
    /\ UtilIdle
    /\ CallsIdle

OrchestratorNext ==
    /\ \/ \E ok \in BOOLEAN : OrchInitializeContext(ok)
       \/ \E fp \in 0..MaxFailPoint, e \in EnvErrors : OrchRunStage(fp, e)
       \/ LoopDone
       \/ \E r \in BOOLEAN : Cleanup(r)
       \/ \E k \in 0..(NumStages + 2) : OrchGenerateBadges(k)
       \/ OrchSummary
    /\ UNCHANGED <<sanityVars, wcVars, urVars, hmVars, utilVars, callVars>>

OrchestratorSpec == OrchestratorInit /\ [][OrchestratorNext]_vars

----------------------------------------------------------------------------
\* Properties of runMonitor (behaviours of MonitorSpec)

Ended == pc \in {"done", "exited"}

LoopFinished == pc \in {"cleanup", "badges", "summary", "rejected", "done", "exited"}

HasStatus(st) == \E i \in 1..Len(results) : results[i].status = st

\* C1: the stage functions are invoked in STAGES order, the function of stage
\* i+1 is invoked only if the function of stage i returned normally, and once
\* a stage function has thrown no later stage function is invoked.
C1_StagesInOrderUntilFailure ==
    /\ Len(invoked) <= NumStages
    /\ \A i \in 1..Len(invoked) :
          /\ invoked[i] = STAGES[i]
          /\ i < Len(invoked) => thrown[i] = NoError
    /\ \A i \in 1..Len(thrown) : thrown[i] # NoError => Len(invoked) = i

C1_Witness ==
    /\ Ended
    /\ invoked = <<"connection", "health", "auth">>
    /\ thrown[3] # NoError

\* C3: when the stage loop has finished, results holds exactly one entry per
\* stage of STAGES, in STAGES order, of the shape passed* [failed skipped*].
C3_ResultsShape ==
    LoopFinished =>
        /\ Len(results) = NumStages
        /\ \A i \in 1..NumStages : results[i].stage = STAGES[i]
        /\ results[1].status \in {"passed", "failed"}
        /\ \A i \in 2..NumStages :
              IF results[i - 1].status = "passed"
              THEN results[i].status \in {"passed", "failed"}
              ELSE results[i].status = "skipped"

C3_Witness ==
    /\ LoopFinished
    /\ [i \in 1..Len(results) |-> results[i].status]
         = <<"passed", "passed", "failed", "skipped", "skipped", "skipped",
             "skipped", "skipped", "skipped">>

\* C4 as stated: at the end of a run the exit code is 0 if and only if no entry
\* of the results list is failed.
C4_ExitZeroIffNoFailedEntry ==
    Ended => (exitCode = 0 <=> ~HasStatus("failed"))

\* C4 amended: when runMonitor returns it has set the exit code to 1 if a
\* stage failed and to 0 otherwise; when generateBadges rejects, runMonitor
\* rejects without setting the exit code and the entry point exits with 1.
\* In every case an exit code 0 implies that no entry is failed.
C4_ExitCode ==
    /\ pc = "done" => /\ exitCode \in {0, 1}
                      /\ exitCode = 1 <=> HasStatus("failed")
    /\ pc = "rejected" => exitCode = Unset
    /\ pc = "exited" => exitCode = 1
    /\ exitCode = 0 => pc = "done" /\ ~HasStatus("failed")

C4_Witness ==
    /\ pc = "done"
    /\ exitCode = 1
    /\ HasStatus("failed")

\* C5: every run that reaches the stage loop invokes cleanup exactly once and
\* afterwards generateBadges exactly once with the complete results list,
\* also when a stage failed and when the disconnect of cleanup raises.
C5_CleanupThenBadgesOnce ==
    /\ cleanupCalls <= 1
    /\ Len(badgeCalls) <= 1
    /\ Len(badgeCalls) = 1 =>
          /\ cleanupCalls = 1
          /\ badgeCalls[1] = results
          /\ Len(results) = NumStages
    /\ pc \in {"summary", "rejected", "done", "exited"} =>
          cleanupCalls = 1 /\ Len(badgeCalls) = 1

C5_Witness ==
    /\ Ended
    /\ HasStatus("failed")
    /\ cleanupLog = <<"Failed to disconnect userApi">>
    /\ Len(badgeCalls) = 1

C8_ResourcesDeletedOnFailure ==
    (Ended /\ HasStatus("failed") /\ results[4].status = "passed") =>
        /\ \E i \in 1..Len(txLog) : txLog[i] = "deleteBucket"
        /\ chain.file => \E i \in 1..Len(txLog) : txLog[i] = "requestDeleteFile"

----------------------------------------------------------------------------
\* Properties of runSanitySuite (behaviours of SanitySpec)

StageIndex(s) == CHOOSE i \in 1..Len(SanityStages) : SanityStages[i] = s

SanityStageSet == {SanityStages[i] : i \in 1..Len(SanityStages)}

SomeStageFailed == \E s \in SanityStageSet : stageStatuses[s] = "failed"

DeletionAttempted(what) ==
    \E i \in 1..Len(deletions) : deletions[i].what = what

\* C2: for every target other than "full", no stage ordered after the target
\* is ever executed, whatever the outcomes of the stages up to the target.
C2_NoStageAfterTarget ==
    /\ \A i \in 1..Len(stagesRun) : stagesRun[i] = SanityStages[i]
    /\ target # "full" =>
          /\ Len(stagesRun) <= StageIndex(target)
          /\ \A s \in SanityStageSet :
                StageIndex(s) > StageIndex(target) => stageStatuses[s] = "skipped"

C2_Witness ==
    /\ sanityPc = "done"
    /\ target = "health"
    /\ stagesRun = <<"connection", "health">>
    /\ stageStatuses["health"] = "passed"

\* C7: at the end of a run the exit code has been set to 1 if and only if
\* some executed stage has status failed in the status map.
C7_ExitOneIffStageFailed ==
    sanityPc = "done" => (sanityExit = 1 <=> SomeStageFailed)

\* C9: whenever a run has created a bucket on chain and then ends, the
\* deletion of that bucket has been attempted.
C9_BucketDeletionAttempted ==
    (sanityPc = "done" /\ "bucket" \in created) => DeletionAttempted("bucket")

\* C10: cleanup is invoked at most once per run, for every target and every
\* pattern of stage failures and cleanup-step failures.
C10_CleanupAtMostOnce == Len(cleanups) <= 1

C10_Witness ==
    /\ sanityPc = "done"
    /\ target = "upload"
    /\ cleanups = <<"upload">>
    /\ DeletionAttempted("bucket")
    /\ sanityChain.bucket

\* The attempts made by cleanup, in the order it made them.
CleanupAttempts == SelectSeq(deletions, LAMBDA a : a.by = "cleanup")

\* The deletion checks cleanup invokes, in source order (part_005:136-174).
ExpectedCleanupAttempts(l) ==
    IF ~l.storageHubClient \/ ~l.mspClient \/ ~l.bucketId \/ ~l.bucketName
    THEN <<>>
    ELSE (IF l.adolphusFileKey THEN <<Attempt("cleanup", "adolphus")>> ELSE <<>>)
         \o (IF l.randomFileKey THEN <<Attempt("cleanup", "random")>> ELSE <<>>)
         \o <<Attempt("cleanup", "bucket")>>

\* C11: a second invocation of cleanup in the same run is a no-op: it issues
\* no file-deletion and no bucket-deletion request.
C11_SecondCleanupNoOp ==
    [][(Len(cleanups) >= 1 /\ Len(cleanups') > Len(cleanups))
          => deletions' = deletions]_vars

\* C12: cleanup attempts the deletion of each captured file and then of the
\* bucket, in that order, whichever of these steps fail; a step whose file
\* key was never captured is skipped; cleanup changes no stage status, and a
\* run whose cleanup has label "failure" ends with exit code 1.
C12_CleanupBestEffortInOrder ==
    [][/\ Len(cleanups') > Len(cleanups) =>
            /\ deletions' = deletions \o ExpectedCleanupAttempts(locals)
            /\ stageStatuses' = stageStatuses
            /\ locals' = locals
       /\ \A s \in SanityStageSet :
            stageStatuses[s] = "failed" => stageStatuses'[s] = "failed"
       /\ sanityExit = 1 => sanityExit' = 1
       /\ (sanityPc' = "done" /\ cleanups' = <<"failure">>) =>
            sanityExit' = 1]_vars

\* A failed stage, then a cleanup whose adolphus deletion failed (the file is
\* still on chain) and whose later steps were attempted all the same.
C12_Witness ==
    /\ sanityPc = "done"
    /\ cleanups = <<"failure">>
    /\ stageStatuses["download"] = "failed"
    /\ locals.adolphusFileKey /\ locals.randomFileKey
    /\ "adolphus" \in sanityChain.files
    /\ sanityChain.bucket
    /\ CleanupAttempts = <<Attempt("cleanup", "adolphus"),
                           Attempt("cleanup", "random"),
                           Attempt("cleanup", "bucket")>>
    /\ sanityExit = 1

----------------------------------------------------------------------------
\* Properties of withConcurrency (behaviours of ConcurrencySpec)

AllWorkersSettled ==
    /\ wcPc = "awaiting"
    /\ \A w \in DOMAIN wcWorkers : wcWorkers[w] # "running"

\* The indices 0 .. k-1 in increasing order.
FirstIndices(k) == [i \in 1..k |-> i - 1]

\* C14: at no instant are more than max(1, width) invocations of fn in
\* flight, for every number of items and every interleaving of completions.
C14_InFlightBounded ==
    /\ Cardinality(wcInFlight)
          <= (IF wcConcurrency > 1 THEN wcConcurrency ELSE 1)
    /\ wcPc = "awaiting" =>
          wcInFlight = {wcCurrent[w] : w \in {v \in DOMAIN wcWorkers :
                                                 wcWorkers[v] = "running"}}

\* Width 2 reached with more items than workers, after some completions.
C14_Witness ==
    /\ wcConcurrency = 2
    /\ wcItems = MaxItems
    /\ Cardinality(wcInFlight) = 2
    /\ Len(wcDispatched) = MaxItems

\* C15 as stated: the items are dispatched in input order, each once, and
\* once no invocation is left in flight every item has been dispatched.
C15_EveryItemDispatchedInOrder ==
    /\ wcDispatched = FirstIndices(Len(wcDispatched))
    /\ AllWorkersSettled => Len(wcDispatched) = wcItems

\* C15 amended: items are dispatched in input order, each at most once; once
\* no invocation is left in flight, every item has been dispatched unless
\* every worker ended on a rejection of fn.
C15_DispatchedInOrderUnlessAllThrew ==
    /\ wcDispatched = FirstIndices(Len(wcDispatched))
    /\ Len(wcDispatched) <= wcItems
    /\ wcIdx = Len(wcDispatched)
    /\ (AllWorkersSettled /\ Len(wcDispatched) < wcItems) =>
          \A w \in DOMAIN wcWorkers : wcWorkers[w] = "threw"
    /\ (AllWorkersSettled /\ wcRaised = <<>>) => Len(wcDispatched) = wcItems

\* One worker ended on a rejection, the other dispatched all remaining items.
C15_Witness ==
    /\ AllWorkersSettled
    /\ wcConcurrency = 2
    /\ wcItems = MaxItems
    /\ Len(wcRaised) = 1
    /\ wcRaised[1].item = 0
    /\ wcDispatched = FirstIndices(MaxItems)

\* C16: the call fails if and only if some invocation of fn fails, and then
\* with the first error raised; it reports success only when every worker
\* returned without any failure.
C16_FailsWithFirstError ==
    /\ wcOutcome.state = "rejected" <=> wcRaised # <<>>
    /\ wcOutcome.state = "rejected" => wcOutcome.error = wcRaised[1].error
    /\ wcOutcome.state = "fulfilled" =>
          /\ AllWorkersSettled
          /\ \A w \in DOMAIN wcWorkers : wcWorkers[w] = "returned"
    /\ (AllWorkersSettled /\ wcRaised = <<>>) => wcOutcome.state = "fulfilled"

\* Two invocations failed with different errors; the call carries the first.
C16_Witness ==
    /\ Len(wcRaised) = 2
    /\ wcRaised[1].error # wcRaised[2].error
    /\ wcOutcome = Rejected(wcRaised[1].error)

----------------------------------------------------------------------------
\* Properties of uploadWithRetry (behaviours of RetrySpec)

\* C18: while every attempt fails with a retryable error, the call gives up
\* only after at least minRetries attempts, whatever the elapsed time; and no
\* attempt starts when the attempts made so far are >= minRetries and the
\* elapsed time exceeds maxTotalMs.
C18_MinRetriesThenWindow ==
    [][/\ urAttempt' # urAttempt =>
            /\ urAttempt' = urAttempt + 1
            /\ urPc' = "uploading"
            /\ ~(urAttempt >= minRetries /\ urElapsed' > maxTotalMs)
       /\ (urPc' = "thrown" /\ shouldRetry(errorMsg(urError'))) =>
            urAttempt' >= minRetries]_vars

\* An attempt in progress although the window has elapsed: the minimum
\* number of attempts was not reached before.
C18_Witness ==
    /\ urPc = "uploading"
    /\ urElapsed > maxTotalMs
    /\ urAttempt > 1
    /\ urAttempt <= minRetries
    /\ shouldRetry(errorMsg(urError))

\* C19: whenever the call gives up, the caller receives the error raised by
\* the most recent upload attempt; after a non-retryable error there is no
\* sleep, no reAuth and no further attempt.
C19_RethrowsLatestAttemptError ==
    /\ urPc = "thrown" => urOutcome = Rejected(urError)
    /\ (urError # NoError /\ ~shouldRetry(errorMsg(urError))) => urPc = "thrown"

\* C20: after an attempt failed with "HTTP 403", reAuth is invoked before
\* the backoff sleep and the next attempt; whether reAuth fulfils or rejects,
\* the call goes on to the sleep unless the retry window is over, and when it
\* gives up it is with an upload error or the window error.
C20_ReAuthFailureSwallowed ==
    [][/\ (urPc = "uploading" /\ urError' = Http403 /\ urPc' # "returned") =>
            urPc' = "reauth"
       /\ (urPc' \in {"sleeping", "uploading"} /\ urAttempt' >= 1
           /\ urError' = Http403) => urReAuth' \in {"fulfilled", "rejected"}
       /\ urPc = "reauth" =>
            IF retryWindowOver(urAttempt, urElapsed')
            THEN urPc' = "thrown" /\ urOutcome' = Rejected(urError)
            ELSE urPc' = "sleeping" /\ urOutcome' = Pending]_vars

\* reAuth rejected, and the call slept and started the next attempt.
C20_Witness ==
    /\ urPc = "uploading"
    /\ urAttempt = 2
    /\ urError = Http403
    /\ urReAuth = "rejected"
    /\ urOutcome = Pending

----------------------------------------------------------------------------
\* Properties of runMonitorHeavy (behaviours of HeavySpec)

HeavyEnded == hmPc \in {"returned", "exited"}

\* C13: every terminating run has invoked writeHeavyOutputs exactly once,
\* whatever the exit code, including the runs that fail during the MSP
\* connection, the SIWE authentication or the creation of the chain API.
C13_StatusWriteAttemptedOnce == HeavyEnded => Len(hmWrites) = 1

\* C17: at no instant are two transaction submissions in flight, and none
\* is in flight while an invocation made by withConcurrency is; the storage
\* request of a file is submitted only when the hashes of all files before
\* it have been recorded, in input order; withConcurrency is used for
\* confirmations, uploads and queries only.
C17_SubmissionsOneAtATime ==
    /\ Cardinality(hmTxInFlight) <= 1
    /\ hmTxInFlight # {} => wcInFlight = {}
    /\ hmPc \in {"sr.gas", "sr.tx"} =>
          hmSubmitted = SubSeq(FilesOfBatch(hmBatch), 1, hmI)
    /\ hmPc \in {"sr.spacing", "sr.confirm"} =>
          hmSubmitted = SubSeq(FilesOfBatch(hmBatch), 1, Len(hmSubmitted))
    /\ hmPc = "sr.tx" =>
          hmTxInFlight = {Tx("issueStorageRequest", FilesOfBatch(hmBatch)[hmI + 1])}
    /\ (\E t \in hmTxInFlight : t.kind = "issueStorageRequest") => hmPc = "sr.tx"
    /\ wcInFlight # {} => hmConcFor \in {"confirm", "upload", "query", "cleared"}

\* The storage request of the third file in flight, the first two recorded.
C17_Witness ==
    /\ hmPc = "sr.tx"
    /\ hmBatch = 1
    /\ hmI = 2
    /\ hmSubmitted = <<1, 2>>
    /\ hmTxInFlight = {Tx("issueStorageRequest", 3)}

\* floor(b * 1.5^n), computed directly.  Above n = 10 the value for n = 10 is
\* used: the product would leave the range of the integers, and for every
\* base delay of at least 1050 ms the value for n = 10 is already above the
\* largest maxDelayMs, 60000, the values growing with n.
FloorScaled(b, n) ==
    LET m == IF n > 10 THEN 10 ELSE n
    IN  (b * Pow(3, m)) \div Pow(2, m)

MinOf(a, b) == IF a < b THEN a ELSE b

\* C21: the delay uploadWithRetry starts to sleep after its k-th failed
\* attempt is min(maxDelayMs, floor(baseDelayMs * 1.5^(k-1))); it is never
\* above maxDelayMs and never below the delay of the retry before.
C21_BackoffDelay ==
    [][(urPc' = "sleeping" /\ urPc # "sleeping") =>
          /\ urDelay' = MinOf(maxDelayMs, FloorScaled(baseDelayMs, urAttempt' - 1))
          /\ urDelay' <= maxDelayMs
          /\ urDelay' >= urDelay]_vars

\* The third retry of a call with delayMs 15001 sleeps floor(33752.25) ms.
C21_Witness ==
    /\ urPc = "sleeping"
    /\ urOpts.delayMs = 15001
    /\ urOpts.maxDelayMs = Unset
    /\ urAttempt = 3
    /\ urDelay = 33752

----------------------------------------------------------------------------
\* Properties of the polling waits (behaviours of WaitsSpec)

\* C22: pollBackend invokes its check at most `retries` times, returns at
\* the first check that yields true, takes an exception of the check as
\* "not yet satisfied" and never propagates it, and throws its timeout error
\* once `retries` checks have failed to yield true.
C22_PollBackendContract ==
    [][wt'.call.fn = "pollBackend" =>
          /\ wt'.checks <= WaitRetries(wt'.call)
          /\ (wt.pc = "checking" /\ wt'.last = "true") => wt'.pc = "returned"
          /\ (wt.pc = "checking" /\ wt'.last = "throws") => wt'.pc = "sleeping"
          /\ wt'.pc = "returned" => wt'.last = "true"
          /\ wt'.pc = "thrown" =>
                /\ wt'.error = WaitTimeout(wt'.call)
                /\ wt'.checks = WaitRetries(wt'.call)
                /\ wt'.last # "true"
          /\ (wt.pc = "sleeping" /\ wt.checks = WaitRetries(wt.call)) =>
                wt'.pc = "thrown"]_vars

\* The second of three checks threw and pollBackend sleeps before the third.
C22_Witness ==
    /\ wt.pc = "sleeping"
    /\ wt.call.fn = "pollBackend"
    /\ wt.call.retries = 3
    /\ wt.checks = 2
    /\ wt.last = "throws"

\* C23: when the predicate never becomes true, pollBackend and
\* waitForOnChainData throw their timeout error no earlier than
\* retries * delayMs after the call and no later than that plus the duration
\* of one check.
C23_TimeoutWithinOneCheck ==
    (/\ wt.pc = "thrown"
     /\ wt.call.fn \in {"pollBackend", "waitForOnChainData"}
     /\ wt.error = WaitTimeout(wt.call)) =>
        LET budget == WaitRetries(wt.call) * WaitDelayMs(wt.call)
        IN  /\ wt.elapsed >= budget
            /\ wt.elapsed <= budget + wt.longest

\* C24: waitForOnChainData and waitForStorageRequestCleared take an error
\* of the state query as "not yet satisfied": polling goes on, or the budget
\* is exhausted and the timeout error is thrown.
C24_QueryErrorSwallowed ==
    [][(/\ wt.pc = "checking"
        /\ wt.call.fn \in {"waitForOnChainData", "waitForStorageRequestCleared"}
        /\ wt'.last = "throws") =>
          \/ wt'.pc = "sleeping"
          \/ wt'.pc = "thrown" /\ wt'.error = WaitTimeout(wt.call)]_vars

----------------------------------------------------------------------------
\* Properties of the finality waits (behaviours of FinalizationSpec and of
\* FinalizedEventSpec)

\* C25: waitForFinalization, and the finalizedAtLeast it awaits, always
\* terminates, by returning or by throwing.
C25_FinalizationWaitEnds == <>(fa.pc \in {"returned", "thrown"})

\* C26: once forFinalizedEvent has settled with its subscription
\* established, unsub has been called exactly once and the subscription is
\* no longer active.
C26_UnsubscribedExactlyOnce ==
    (fe.outcome # "pending" /\ fe.sub \in {"active", "closed"}) =>
        (fe.unsubs = 1 /\ fe.sub = "closed")

----------------------------------------------------------------------------
\* Properties of the cleanup tool (behaviours of CleanupToolSpec)

\* C29: without --execute runCleanup submits no on-chain transaction in any
\* mode, and in mode "list" it submits none even with --execute.
C29_DryRunByDefault ==
    (~ct.args.execute \/ ct.args.mode = "list") => ct.txs = <<>>

\* A dry run of delete-buckets --with-files over two buckets has logged
\* the deletions of files and buckets it left out.
C29_Witness ==
    /\ ct.pc = "returned"
    /\ ct.args.mode = "delete-buckets"
    /\ ct.args.withFiles
    /\ ~ct.args.execute
    /\ ct.b = 2
    /\ ct.dry >= 4
    /\ ct.txs = <<>>

----------------------------------------------------------------------------
\* Scenario C of the upload sub-stage (behaviours of RetrySpec: the call
\* uploadFilesParallel makes for each item)

\* C27: an upload that fails with a Domain-Conflict error is retried on the
\* fixed schedule deleteRetryDelaysMs: after its k-th such failure, k <= 3,
\* uploadWithRetry sleeps the k-th delay of the schedule, so that the item
\* can succeed later and the stage pass.
C27_DomainConflictRetriedOnSchedule ==
    [][(urPc = "uploading" /\ urPc' # "returned" /\ urError' = DomainConflict) =>
          /\ urPc' = "sleeping"
          /\ urAttempt' <= Len(deleteRetryDelaysMs)
          /\ urDelay' = deleteRetryDelaysMs[urAttempt']]_vars

----------------------------------------------------------------------------
\* Stage sequencing of runMonitor (behaviours of MonitorSpec)

\* What the guards at the top of the stage functions throw.
GuardErrors ==
    {Err("MSP client not initialized"), Err("MspClient not initialized"),
     Err("Required clients not initialized"),
     Err("Required context not initialized")}

\* C30: no stage function invoked by runMonitor finds a client or artifact
\* of its guard missing: none of them throws a "not initialized" error.
C30_GuardsNeverFire == \A i \in 1..Len(thrown) : thrown[i] \notin GuardErrors

\* All nine stage functions were invoked, each with its guard satisfied,
\* and returned.
C30_Witness ==
    /\ invoked = STAGES
    /\ \A i \in 1..Len(thrown) : thrown[i] = NoError
    /\ \A f \in CtxFields : ctx[f]

----------------------------------------------------------------------------
\* Properties of generateBadges (behaviours of BadgesSpec)

NumWithStatus(rs, st) == Len(SelectSeq(rs, LAMBDA r : r.status = st))

\* C28: a call of generateBadges that completes has written one badge per
\* stage result, brightgreen for passed, red for failed and lightgrey for
\* skipped, and then the summary badge: red with "f/total failed" if and only
\* if some result is failed, otherwise brightgreen with "p/total passed".
C28_BadgeColours ==
    (pc = "summary" /\ badgeCalls = <<results>>) =>
        LET n == Len(results)
            p == NumWithStatus(results, "passed")
            f == NumWithStatus(results, "failed")
            s == badgeFiles[n + 1]
        IN  /\ Len(badgeFiles) = n + 1
            /\ \A i \in 1..n :
                  /\ badgeFiles[i].file = results[i].stage
                  /\ badgeFiles[i].message = <<results[i].status>>
                  /\ results[i].status = "passed" => badgeFiles[i].color = "brightgreen"
                  /\ results[i].status = "failed" => badgeFiles[i].color = "red"
                  /\ results[i].status = "skipped" => badgeFiles[i].color = "lightgrey"
            /\ s.file = "status"
            /\ s.color \in {"red", "brightgreen"}
            /\ s.color = "red" <=> f > 0
            /\ s.color = "red" => s.message = <<f, n, "failed">>
            /\ s.color = "brightgreen" => s.message = <<p, n, "passed">>

\* The badges of a list with a passed, a skipped and again a passed result:
\* no failed one, so the summary is brightgreen with "2/3 passed".
C28_Witness ==
    /\ pc = "summary"
    /\ Len(results) = 3
    /\ results[1].status = "passed"
    /\ results[2].status = "skipped"
    /\ results[3].status = "passed"
    /\ badgeFiles[2].color = "lightgrey"
    /\ badgeFiles[4] = [file |-> "status", message |-> <<2, 3, "passed">>,
                        color |-> "brightgreen"]

----------------------------------------------------------------------------
\* The artifact fields of MonitorContext (src/src/monitor/config.ts:140-151).
ArtifactFields == {"mspId", "bucketName", "bucketId", "fileBlob",
                   "fingerprint", "fileSize", "fileLocation", "fileKey"}

\* C31: during a run of runMonitor every artifact field of the context is
\* assigned at most once (hence by at most one stage).
C31_ArtifactsWriteOnce ==
    \A f \in ArtifactFields : ctx.assignments[f] <= 1

\* C32: during uploadFilesParallel no variable shared between the workers
\* (currentSession, uploadedCount) is written by two workers whose executions
\* overlap.
C32_NoSharedWriteByOverlappingWorkers ==
    \A v \in SharedVariables : v \notin ufp.overlapping

\* The blocks finalized before the deadline that contain a
\* StorageRequestFulfilled event for the awaited file key.
SfMatching ==
    {b \in 1..Len(sf.blocks) :
        \E i \in 1..Len(sf.blocks[b]) :
            toLowerCase(sf.blocks[b][i]) = toLowerCase(sf.fileKey)}

\* C33: when a block finalized before the deadline contains a
\* StorageRequestFulfilled event for fileKey (compared case-insensitively),
\* waitForStorageRequestFulfilled does not time out, and the hash it returns
\* is that of such a block, whatever events for other keys came first.
C33_MatchingEventIsFound ==
    /\ (sf.pc = "thrown" /\ sf.error \in {SfTimeout, FinalizedEventTimeout})
          => SfMatching = {}
    /\ sf.pc = "returned" => sf.hash \in SfMatching

\* C34: once the backend has reported the file as "expired" or "missing",
\* waitForMspFileReadyWithSnapshot has thrown "MSP file status ... (aborting)":
\* it neither sleeps nor polls again nor ends with the timeout error.
C34_AbortsOnExpiredOrMissing ==
    mr.lastStatus \in {"expired", "missing"}
        => mr.pc = "thrown" /\ mr.error = MspAborting(mr.lastStatus)

\* C35: a run of runMonitorHeavy that failed inside its try block writes a
\* red summary badge and a phases list with a failed phase; a brightgreen
\* summary badge is written only by runs whose overall outcome is "success".
C35_FailedRunWritesRedBadge ==
    \A i \in 1..Len(hmStatusFile) :
        LET f == hmStatusFile[i]
        IN  /\ f.overall = "failed"
                 => /\ f.badge.color = "red"
                    /\ \E p \in 1..Len(f.phases) : f.phases[p].status = "failed"
            /\ f.badge.color = "brightgreen" => f.overall = "success"

----------------------------------------------------------------------------
\* Properties of deleteFilesWithRetry (behaviours of DeleteRetrySpec)

IsPrefix(a, b) == Len(a) <= Len(b) /\ a = SubSeq(b, 1, Len(a))

Elements(q) == {q[i] : i \in 1..Len(q)}

\* The deletion round k is over.
RoundOver(k) == k < Len(df.rounds) \/ df.pc # "deleting"

\* C36: deleteFilesWithRetry makes at most three deletion rounds; the sleep
\* behind round k lasts the k-th of 30 s, 60 s, 90 s and round k+1 starts only
\* after it; round k+1 attempts exactly the files that failed in round k, in
\* order; a file whose deletion succeeded is attempted in no later round.
C36_DeletionRoundsFollowSchedule ==
    /\ Len(df.rounds) <= 3
    /\ \A k \in 1..Len(df.sleeps) : df.sleeps[k] = 30000 * k
    /\ Len(df.sleeps) <= Len(df.rounds)
    /\ Len(df.rounds) <= Len(df.sleeps) + 1
    /\ IsPrefix(df.rounds[1].attempted, df.files)
    /\ \A k \in 1..(Len(df.rounds) - 1) :
          /\ IsPrefix(df.rounds[k + 1].attempted, df.rounds[k].failed)
          /\ RoundOver(k + 1) => df.rounds[k + 1].attempted = df.rounds[k].failed
    /\ \A s \in df.succeeded : \A k \in (s.round + 1)..Len(df.rounds) :
          s.file \notin Elements(df.rounds[k].attempted)

\* A third round was made for a file that failed twice, after another file
\* had succeeded, and its backoff sleep has ended.
C36_Witness ==
    /\ Len(df.rounds) = 3
    /\ df.sleeps = <<30000, 60000, 90000>>
    /\ df.succeeded # {}
    /\ df.rounds[3].failed # <<>>

\* C37: deleteFilesWithRetry returns only when the storage request of every
\* file was found cleared and the latest bucket listing showed none of the
\* files; when the polling ends with a file still listed, or with no listing
\* obtained, the call throws the timeout error of pollBackend.
C37_ReturnsOnlyWhenClearedAndAbsent ==
    /\ df.pc = "returned"
          => /\ \A i \in 1..Len(df.files) : df.files[i] \in df.cleared
             /\ df.listing = <<{}>>
    /\ (df.pc \in {"returned", "thrown"} /\ df.polls > 0 /\ df.listing # <<{}>>)
          => df.pc = "thrown" /\ df.error = TreeTimeout

\* The call returned after a second deletion round and a listing that still
\* showed a file.
C37_Witness ==
    /\ df.pc = "returned"
    /\ Len(df.rounds) >= 2
    /\ df.polls >= 2

----------------------------------------------------------------------------
\* C38: once the promise of withConcurrency has settled no invocation of fn
\* is in flight (so none is dispatched later either); in particular no upload
\* worker is while runMonitorHeavy writes its status files and disconnects.
C38_NothingInFlightOnceSettled ==
    /\ wcOutcome.state # "pending" => wcInFlight = {}
    /\ (hmPc \in {"writing", "disconnecting"} /\ hmConcFor = "upload")
          => wcInFlight = {}

----------------------------------------------------------------------------
\* Properties of the part_010 orchestrator (behaviours of OrchestratorSpec)

\* C39: once a stage function has thrown, no later stage function is
\* invoked in that run, so only the last invocation can have thrown.
C39_NoStageAfterThrow ==
    \A i \in 1..Len(thrown) : thrown[i] # NoError => i = Len(invoked)

====
